---- MODULE Spec2Model ----
(***************************************************************************)
(* Model of the zugzwang server: the chess rule engine (ChessEngine.ts),   *)
(* the in-memory game lobby (GameLobby.ts), the HTTP routes that drive it  *)
(* (gameRoutes.ts), the blockchain event poller (EventPollingService.ts)   *)
(* and the part of the escrow contract (ChessEscrow.sol) that emits the    *)
(* events the poller consumes.                                             *)
(***************************************************************************)
EXTENDS Integers, Sequences, FiniteSets, Bags, TLC

(***************************************************************************)
(* Bounds of the model.                                                    *)
(***************************************************************************)
MaxGames == 1
MaxBlock == 2
MaxTicks == 2
MaxTxPerBlock == 1

(***************************************************************************)
(* ChessEngine.ts: pieces, squares, board.                                 *)
(***************************************************************************)
Idx == 0..7

NoPiece == [type |-> "none", color |-> "none"]

NoSquare == [row |-> -1, col |-> -1]

Piece(t, c) == [type |-> t, color |-> c]

Sq(r, c) == [row |-> r, col |-> c]

Abs(x) == IF x < 0 THEN -x ELSE x

Opposite(color) == IF color = "white" THEN "black" ELSE "white"

BackRank == <<"rook", "knight", "bishop", "queen", "king", "bishop", "knight", "rook">>

NoMove ==
  [from |-> NoSquare, to |-> NoSquare, piece |-> NoPiece, capturedPiece |-> NoPiece,
   isCastling |-> FALSE, isEnPassant |-> FALSE, isPromotion |-> FALSE,
   promotionPiece |-> "none"]

createInitialPosition ==
  [board |-> [r \in Idx |-> [c \in Idx |->
      CASE r = 0 -> Piece(BackRank[c + 1], "black")
        [] r = 1 -> Piece("pawn", "black")
        [] r = 6 -> Piece("pawn", "white")
        [] r = 7 -> Piece(BackRank[c + 1], "white")
        [] OTHER -> NoPiece]],
   currentPlayer |-> "white",
   moveHistory |-> <<>>,
   capturedPieces |-> [white |-> <<>>, black |-> <<>>],
   gameStatus |-> "active",
   winner |-> "none",
   lastMove |-> NoMove,
   castlingRights |-> [white |-> [kingSide |-> TRUE, queenSide |-> TRUE],
                       black |-> [kingSide |-> TRUE, queenSide |-> TRUE]],
   enPassantTarget |-> NoSquare,
   halfMoveClock |-> 0,
   fullMoveNumber |-> 1]

\* JSON.parse(JSON.stringify(s)): a structurally equal value sharing nothing
\* with s; keys whose value is undefined are dropped and read back as
\* undefined.  Values here are immutable, so the copy is the value.
deepCopyGameState(gameState) == gameState

isValidSquare(row, col) == row >= 0 /\ row < 8 /\ col >= 0 /\ col < 8

HasPiece(gameState, r, c) == gameState.board[r][c].type # "none"

(***************************************************************************)
(* Attack patterns (used for check detection).                             *)
(***************************************************************************)
Sign(x) == IF x = 0 THEN 0 ELSE IF x > 0 THEN 1 ELSE -1

isPathClear(gameState, fromRow, fromCol, toRow, toCol) ==
  LET rowStep == Sign(toRow - fromRow)
      colStep == Sign(toCol - fromCol)
      n == IF Abs(toRow - fromRow) > Abs(toCol - fromCol)
           THEN Abs(toRow - fromRow) ELSE Abs(toCol - fromCol)
  IN \A k \in 1..(n - 1) :
        ~HasPiece(gameState, fromRow + k * rowStep, fromCol + k * colStep)

canPawnAttackSquare(fromRow, fromCol, toRow, toCol, color) ==
  LET direction == IF color = "white" THEN -1 ELSE 1
  IN (toRow - fromRow) = direction /\ Abs(toCol - fromCol) = 1

canRookAttackSquare(gameState, fromRow, fromCol, toRow, toCol) ==
  IF fromRow # toRow /\ fromCol # toCol THEN FALSE
  ELSE isPathClear(gameState, fromRow, fromCol, toRow, toCol)

canKnightAttackSquare(fromRow, fromCol, toRow, toCol) ==
  LET rowDiff == Abs(toRow - fromRow)
      colDiff == Abs(toCol - fromCol)
  IN (rowDiff = 2 /\ colDiff = 1) \/ (rowDiff = 1 /\ colDiff = 2)

canBishopAttackSquare(gameState, fromRow, fromCol, toRow, toCol) ==
  IF Abs(toRow - fromRow) # Abs(toCol - fromCol) THEN FALSE
  ELSE isPathClear(gameState, fromRow, fromCol, toRow, toCol)

canQueenAttackSquare(gameState, fromRow, fromCol, toRow, toCol) ==
  \/ canRookAttackSquare(gameState, fromRow, fromCol, toRow, toCol)
  \/ canBishopAttackSquare(gameState, fromRow, fromCol, toRow, toCol)

canKingAttackSquare(fromRow, fromCol, toRow, toCol) ==
  LET rowDiff == Abs(toRow - fromRow)
      colDiff == Abs(toCol - fromCol)
  IN rowDiff <= 1 /\ colDiff <= 1 /\ (rowDiff > 0 \/ colDiff > 0)

canPieceAttackSquare(gameState, fromRow, fromCol, toRow, toCol) ==
  LET piece == gameState.board[fromRow][fromCol]
  IN CASE piece.type = "pawn" ->
            canPawnAttackSquare(fromRow, fromCol, toRow, toCol, piece.color)
       [] piece.type = "rook" ->
            canRookAttackSquare(gameState, fromRow, fromCol, toRow, toCol)
       [] piece.type = "knight" ->
            canKnightAttackSquare(fromRow, fromCol, toRow, toCol)
       [] piece.type = "bishop" ->
            canBishopAttackSquare(gameState, fromRow, fromCol, toRow, toCol)
       [] piece.type = "queen" ->
            canQueenAttackSquare(gameState, fromRow, fromCol, toRow, toCol)
       [] piece.type = "king" ->
            canKingAttackSquare(fromRow, fromCol, toRow, toCol)
       [] OTHER -> FALSE

\* The first king of the colour in row-major order, NoSquare if there is none.
findKing(gameState, color) ==
  LET kings == {i \in 0..63 :
                  gameState.board[i \div 8][i % 8] = Piece("king", color)}
  IN IF kings = {} THEN NoSquare
     ELSE LET i == CHOOSE k \in kings : \A o \in kings : k <= o
          IN Sq(i \div 8, i % 8)

isKingInCheckAfterMove(gameState, color) ==
  LET kingPosition == findKing(gameState, color)
      opponentColor == Opposite(color)
  IN IF kingPosition = NoSquare THEN FALSE
     ELSE \E row \in Idx : \E col \in Idx :
            /\ gameState.board[row][col].color = opponentColor
            /\ canPieceAttackSquare(gameState, row, col,
                                    kingPosition.row, kingPosition.col)

(***************************************************************************)
(* Raw move generation per piece type.  The code pushes the moves on a     *)
(* list; only membership and emptiness of the list are ever read, so the   *)
(* list is modelled by the set of its elements.                            *)
(***************************************************************************)
RookDirections == {<<-1, 0>>, <<1, 0>>, <<0, -1>>, <<0, 1>>}

BishopDirections == {<<-1, -1>>, <<-1, 1>>, <<1, -1>>, <<1, 1>>}

QueenDirections == RookDirections \cup BishopDirections

KnightOffsets ==
  {<<-2, -1>>, <<-2, 1>>, <<-1, -2>>, <<-1, 2>>,
   <<1, -2>>, <<1, 2>>, <<2, -1>>, <<2, 1>>}

addLinearMoves(gameState, row, col, directions) ==
  LET piece == gameState.board[row][col]
  IN UNION {
       {Sq(row + k * d[1], col + k * d[2]) : k \in {k \in 1..7 :
           /\ isValidSquare(row + k * d[1], col + k * d[2])
           /\ \A j \in 1..(k - 1) :
                ~HasPiece(gameState, row + j * d[1], col + j * d[2])
           /\ gameState.board[row + k * d[1]][col + k * d[2]].color # piece.color}}
       : d \in directions}

\* getPawnMoves were it to offer the double move from any row.
getPawnMoves_DoubleFromAnyRow(gameState, row, col) ==
  LET piece == gameState.board[row][col]
      direction == IF piece.color = "white" THEN -1 ELSE 1
      forwardOk == /\ isValidSquare(row + direction, col)
                   /\ ~HasPiece(gameState, row + direction, col)
      forward == IF forwardOk THEN {Sq(row + direction, col)} ELSE {}
      double == IF forwardOk /\ isValidSquare(row + 2 * direction, col)
                   /\ ~HasPiece(gameState, row + 2 * direction, col)
                THEN {Sq(row + 2 * direction, col)} ELSE {}
      captures == {Sq(row + direction, col + colOffset) : colOffset \in
                     {o \in {-1, 1} :
                        /\ isValidSquare(row + direction, col + o)
                        /\ HasPiece(gameState, row + direction, col + o)
                        /\ gameState.board[row + direction][col + o].color
                             # piece.color}}
      ep == gameState.enPassantTarget
      enPassant == IF ep # NoSquare /\ row = ep.row /\ Abs(col - ep.col) = 1
                   THEN {Sq(ep.row, ep.col)} ELSE {}
  IN forward \cup double \cup captures \cup enPassant

getPawnMoves(gameState, row, col) ==
  LET piece == gameState.board[row][col]
      direction == IF piece.color = "white" THEN -1 ELSE 1
      startRow == IF piece.color = "white" THEN 6 ELSE 1
      forwardOk == /\ isValidSquare(row + direction, col)
                   /\ ~HasPiece(gameState, row + direction, col)
      forward == IF forwardOk THEN {Sq(row + direction, col)} ELSE {}
      double == IF forwardOk /\ row = startRow
                   /\ ~HasPiece(gameState, row + 2 * direction, col)
                THEN {Sq(row + 2 * direction, col)} ELSE {}
      captures == {Sq(row + direction, col + colOffset) : colOffset \in
                     {o \in {-1, 1} :
                        /\ isValidSquare(row + direction, col + o)
                        /\ HasPiece(gameState, row + direction, col + o)
                        /\ gameState.board[row + direction][col + o].color
                             # piece.color}}
      ep == gameState.enPassantTarget
      enPassant == IF ep # NoSquare /\ row = ep.row /\ Abs(col - ep.col) = 1
                   THEN {Sq(ep.row, ep.col)} ELSE {}
  IN forward \cup double \cup captures \cup enPassant

getRookMoves(gameState, row, col) ==
  addLinearMoves(gameState, row, col, RookDirections)

getKnightMoves(gameState, row, col) ==
  LET piece == gameState.board[row][col]
  IN {Sq(row + o[1], col + o[2]) : o \in {o \in KnightOffsets :
        /\ isValidSquare(row + o[1], col + o[2])
        /\ gameState.board[row + o[1]][col + o[2]].color # piece.color}}

getBishopMoves(gameState, row, col) ==
  addLinearMoves(gameState, row, col, BishopDirections)

getQueenMoves(gameState, row, col) ==
  addLinearMoves(gameState, row, col, QueenDirections)

getKingMoves(gameState, row, col) ==
  LET piece == gameState.board[row][col]
      regular == {Sq(row + o[1], col + o[2]) : o \in {o \in QueenDirections :
                    /\ isValidSquare(row + o[1], col + o[2])
                    /\ gameState.board[row + o[1]][col + o[2]].color # piece.color}}
      castlingRights == gameState.castlingRights[piece.color]
      notInCheck == ~isKingInCheckAfterMove(gameState, piece.color)
      kingSide == IF /\ castlingRights.kingSide
                     /\ ~HasPiece(gameState, row, 5)
                     /\ ~HasPiece(gameState, row, 6)
                     /\ gameState.board[row][7] = Piece("rook", piece.color)
                     /\ notInCheck
                  THEN {Sq(row, 6)} ELSE {}
      queenSide == IF /\ castlingRights.queenSide
                      /\ ~HasPiece(gameState, row, 1)
                      /\ ~HasPiece(gameState, row, 2)
                      /\ ~HasPiece(gameState, row, 3)
                      /\ gameState.board[row][0] = Piece("rook", piece.color)
                      /\ notInCheck
                   THEN {Sq(row, 2)} ELSE {}
  IN regular \cup kingSide \cup queenSide

getRawMoves(gameState, row, col) ==
  LET piece == gameState.board[row][col]
  IN CASE piece.type = "pawn" -> getPawnMoves(gameState, row, col)
       [] piece.type = "rook" -> getRookMoves(gameState, row, col)
       [] piece.type = "knight" -> getKnightMoves(gameState, row, col)
       [] piece.type = "bishop" -> getBishopMoves(gameState, row, col)
       [] piece.type = "queen" -> getQueenMoves(gameState, row, col)
       [] piece.type = "king" -> getKingMoves(gameState, row, col)
       [] OTHER -> {}

\* The scratch position of the king-safety filter: the piece is put on the
\* target square and the source square is emptied, nothing else.
SimulateMove(gameState, row, col, move) ==
  LET tempGameState == deepCopyGameState(gameState)
      piece == tempGameState.board[row][col]
  IN [tempGameState EXCEPT !.board[move.row][move.col] = piece,
                           !.board[row][col] = NoPiece]

getValidMoves(gameState, row, col) ==
  LET piece == gameState.board[row][col]
  IN IF piece.type = "none" \/ piece.color # gameState.currentPlayer THEN {}
     ELSE {move \in getRawMoves(gameState, row, col) :
             ~isKingInCheckAfterMove(SimulateMove(gameState, row, col, move),
                                     piece.color)}

hasValidMoves(gameState, color) ==
  \E row \in Idx : \E col \in Idx :
     /\ gameState.board[row][col].color = color
     /\ getValidMoves(gameState, row, col) # {}

\* updateGameStatus were it to take a side with no move for mated whether
\* or not its king is attacked.
updateGameStatus_MateWithoutCheck(gameState) ==
  LET currentPlayer == gameState.currentPlayer
      isInCheck == isKingInCheckAfterMove(gameState, currentPlayer)
      hasMoves == hasValidMoves(gameState, currentPlayer)
  IN IF hasMoves
     THEN [gameState EXCEPT !.gameStatus = IF isInCheck THEN "check" ELSE "active"]
     ELSE [gameState EXCEPT !.gameStatus = "checkmate",
                            !.winner = Opposite(currentPlayer)]

updateGameStatus(gameState) ==
  LET currentPlayer == gameState.currentPlayer
      isInCheck == isKingInCheckAfterMove(gameState, currentPlayer)
      hasMoves == hasValidMoves(gameState, currentPlayer)
  IN IF isInCheck
     THEN IF hasMoves THEN [gameState EXCEPT !.gameStatus = "check"]
          ELSE [gameState EXCEPT !.gameStatus = "checkmate",
                                 !.winner = Opposite(currentPlayer)]
     ELSE IF ~hasMoves THEN [gameState EXCEPT !.gameStatus = "stalemate"]
          ELSE [gameState EXCEPT !.gameStatus = "active"]

(***************************************************************************)
(* handleSpecialMoves mutates the copied state and the move object; the    *)
(* model returns both.  Its steps run in the code's order: castling, en    *)
(* passant, promotion, en-passant target.                                  *)
(***************************************************************************)
handleSpecialMoves(gameState, move) ==
  LET piece == move.piece
      from == move.from
      to == move.to
      isCastling == piece.type = "king" /\ Abs(to.col - from.col) = 2
      rookCol == IF to.col > from.col THEN 7 ELSE 0
      newRookCol == IF to.col > from.col THEN 5 ELSE 3
      g1 == IF isCastling
            THEN [gameState EXCEPT
                    !.board[from.row][newRookCol] = gameState.board[from.row][rookCol],
                    !.board[from.row][rookCol] = NoPiece,
                    !.castlingRights[piece.color] =
                        [kingSide |-> FALSE, queenSide |-> FALSE]]
            ELSE gameState
      m1 == [move EXCEPT !.isCastling = isCastling]
      isEnPassant == /\ piece.type = "pawn"
                     /\ g1.enPassantTarget # NoSquare
                     /\ to.row = g1.enPassantTarget.row
                     /\ to.col = g1.enPassantTarget.col
      capturedPawnRow == IF piece.color = "white" THEN to.row + 1 ELSE to.row - 1
      g2 == IF isEnPassant
            THEN [g1 EXCEPT !.board[capturedPawnRow][to.col] = NoPiece]
            ELSE g1
      m2 == IF isEnPassant
            THEN [m1 EXCEPT !.isEnPassant = TRUE,
                            !.capturedPiece = g1.board[capturedPawnRow][to.col]]
            ELSE m1
      isPromotion == piece.type = "pawn" /\ (to.row = 0 \/ to.row = 7)
      g3 == IF isPromotion
            THEN [g2 EXCEPT !.board[to.row][to.col] = Piece("queen", piece.color)]
            ELSE g2
      m3 == IF isPromotion
            THEN [m2 EXCEPT !.isPromotion = TRUE, !.promotionPiece = "queen"]
            ELSE m2
      g4 == IF piece.type = "pawn" /\ Abs(to.row - from.row) = 2
            THEN [g3 EXCEPT !.enPassantTarget = Sq((from.row + to.row) \div 2, from.col)]
            ELSE [g3 EXCEPT !.enPassantTarget = NoSquare]
  IN [gameState |-> g4, move |-> m3]

\* The failure results of makeMove.
EngineError(msg) == [success |-> FALSE, error |-> msg]

\* makeMove were it to advance fullMoveNumber on every move.
makeMove_CountsEveryMove(gameState, fromRow, fromCol, toRow, toCol, promotionPiece) ==
  LET validMoves == getValidMoves(gameState, fromRow, fromCol)
      isValidMove == Sq(toRow, toCol) \in validMoves
      targetPiece == gameState.board[toRow][toCol]
      copied == deepCopyGameState(gameState)
      piece == copied.board[fromRow][fromCol]
      capturedPiece == copied.board[toRow][toCol]
      move0 == [NoMove EXCEPT !.from = Sq(fromRow, fromCol), !.to = Sq(toRow, toCol),
                              !.piece = piece, !.capturedPiece = capturedPiece]
      special == handleSpecialMoves(copied, move0)
      move == special.move
      s1 == [special.gameState EXCEPT !.board[toRow][toCol] = piece,
                                      !.board[fromRow][fromCol] = NoPiece]
      s2 == IF capturedPiece # NoPiece
            THEN [s1 EXCEPT !.capturedPieces[piece.color] = Append(@, capturedPiece)]
            ELSE s1
      s3 == [s2 EXCEPT
               !.currentPlayer = Opposite(piece.color),
               !.moveHistory = Append(@, move),
               !.lastMove = move,
               !.halfMoveClock = IF capturedPiece # NoPiece \/ piece.type = "pawn"
                                 THEN 0 ELSE @ + 1,
               !.fullMoveNumber = @ + 1]
  IN IF ~isValidMove THEN EngineError("Invalid move")
     ELSE IF targetPiece.type = "king" THEN EngineError("Cannot capture king")
     ELSE [success |-> TRUE, newGameState |-> updateGameStatus(s3), move |-> move]

\* makeMove were it to lack the test for a king on the destination square.
makeMove_TakesKings(gameState, fromRow, fromCol, toRow, toCol, promotionPiece) ==
  LET validMoves == getValidMoves(gameState, fromRow, fromCol)
      isValidMove == Sq(toRow, toCol) \in validMoves
      targetPiece == gameState.board[toRow][toCol]
      copied == deepCopyGameState(gameState)
      piece == copied.board[fromRow][fromCol]
      capturedPiece == copied.board[toRow][toCol]
      move0 == [NoMove EXCEPT !.from = Sq(fromRow, fromCol), !.to = Sq(toRow, toCol),
                              !.piece = piece, !.capturedPiece = capturedPiece]
      special == handleSpecialMoves(copied, move0)
      move == special.move
      s1 == [special.gameState EXCEPT !.board[toRow][toCol] = piece,
                                      !.board[fromRow][fromCol] = NoPiece]
      s2 == IF capturedPiece # NoPiece
            THEN [s1 EXCEPT !.capturedPieces[piece.color] = Append(@, capturedPiece)]
            ELSE s1
      s3 == [s2 EXCEPT
               !.currentPlayer = Opposite(piece.color),
               !.moveHistory = Append(@, move),
               !.lastMove = move,
               !.halfMoveClock = IF capturedPiece # NoPiece \/ piece.type = "pawn"
                                 THEN 0 ELSE @ + 1,
               !.fullMoveNumber = IF piece.color = "black" THEN @ + 1 ELSE @]
  IN IF ~isValidMove THEN EngineError("Invalid move")
     ELSE [success |-> TRUE, newGameState |-> updateGameStatus(s3), move |-> move]

\* ChessEngine.makeMove.  promotionPiece is accepted and never read.
makeMove(gameState, fromRow, fromCol, toRow, toCol, promotionPiece) ==
  LET validMoves == getValidMoves(gameState, fromRow, fromCol)
      isValidMove == Sq(toRow, toCol) \in validMoves
      targetPiece == gameState.board[toRow][toCol]
      copied == deepCopyGameState(gameState)
      piece == copied.board[fromRow][fromCol]
      capturedPiece == copied.board[toRow][toCol]
      move0 == [NoMove EXCEPT !.from = Sq(fromRow, fromCol), !.to = Sq(toRow, toCol),
                              !.piece = piece, !.capturedPiece = capturedPiece]
      special == handleSpecialMoves(copied, move0)
      move == special.move
      s1 == [special.gameState EXCEPT !.board[toRow][toCol] = piece,
                                      !.board[fromRow][fromCol] = NoPiece]
      s2 == IF capturedPiece # NoPiece
            THEN [s1 EXCEPT !.capturedPieces[piece.color] = Append(@, capturedPiece)]
            ELSE s1
      s3 == [s2 EXCEPT
               !.currentPlayer = Opposite(piece.color),
               !.moveHistory = Append(@, move),
               !.lastMove = move,
               !.halfMoveClock = IF capturedPiece # NoPiece \/ piece.type = "pawn"
                                 THEN 0 ELSE @ + 1,
               !.fullMoveNumber = IF piece.color = "black" THEN @ + 1 ELSE @]
  IN IF ~isValidMove THEN EngineError("Invalid move")
     ELSE IF targetPiece.type = "king" THEN EngineError("Cannot capture king")
     ELSE [success |-> TRUE, newGameState |-> updateGameStatus(s3), move |-> move]

(***************************************************************************)
(* Addresses.  The HTTP caller is the lower-cased wallet address           *)
(* (authenticateUser); addresses read from contract events are in          *)
(* checksum (mixed) case.  Three persons, each in both spellings.          *)
(***************************************************************************)
Null == "null"

LowerAddresses == {"0xaa", "0xbb", "0xcc"}

ChecksumAddresses == {"0xAA", "0xBB", "0xCC"}

toLowerCase(a) ==
  CASE a = "0xAA" -> "0xaa"
    [] a = "0xBB" -> "0xbb"
    [] a = "0xCC" -> "0xcc"
    [] OTHER -> a

(***************************************************************************)
(* Game.ts / GameLobby.ts: the Game record and the lobby's map.            *)
(* A lobby is a function from the ids it holds to Game records.            *)
(***************************************************************************)
GameIds == 1..MaxGames

NoTime == -1

NoChess == [gameStatus |-> "uninitialized"]

Game(owner, opponent, state, createdAt) ==
  [owner |-> owner, opponent |-> opponent, state |-> state,
   createdAt |-> createdAt, startedAt |-> NoTime, settledAt |-> NoTime,
   chessState |-> NoChess, winner |-> "none"]

\* Map.set
MapSet(G, id, game) ==
  [x \in DOMAIN G \cup {id} |-> IF x = id THEN game ELSE G[x]]

\* GameLobby.createGame: gameId is the fresh randomUUID().
GameLobby_createGame(G, gameId, owner, opponent, t) ==
  LET game == Game(owner, opponent, "CREATED", t)
  IN [games |-> MapSet(G, gameId, game), result |-> "ok"]

GameLobby_joinGame(G, gameId, opponent, t) ==
  IF gameId \notin DOMAIN G THEN [games |-> G, result |-> "null"]
  ELSE LET game == G[gameId] IN
    IF game.state # "CREATED" THEN [games |-> G, result |-> "null"]
    ELSE IF game.opponent # Null /\ game.opponent # opponent
         THEN [games |-> G, result |-> "null"]
    ELSE [games |-> MapSet(G, gameId,
                      [game EXCEPT !.opponent = opponent,
                                   !.state = "STARTED",
                                   !.startedAt = t,
                                   !.chessState = createInitialPosition]),
          result |-> "ok"]

GameLobby_settleGame(G, gameId, t) ==
  IF gameId \notin DOMAIN G THEN [games |-> G, result |-> "null"]
  ELSE LET game == G[gameId] IN
    IF game.state # "STARTED" THEN [games |-> G, result |-> "null"]
    ELSE [games |-> MapSet(G, gameId,
                      [game EXCEPT !.state = "SETTLED", !.settledAt = t]),
          result |-> "ok"]

\* GameLobby.getGame returns the stored object itself (a live reference).
GameLobby_getGame(G, gameId) ==
  IF gameId \in DOMAIN G THEN G[gameId] ELSE Null

isOwner(game, playerAddress) ==
  toLowerCase(game.owner) = toLowerCase(playerAddress)

isOpponent(game, playerAddress) ==
  game.opponent # Null /\ toLowerCase(game.opponent) = toLowerCase(playerAddress)

playerColor(game, playerAddress) ==
  IF isOwner(game, playerAddress) THEN "white" ELSE "black"

\* The checks GameLobby.makeChessMove and GameLobby.getValidMoves share,
\* in the code's order; "ok" when the request reaches the engine.
\* The guards of makeChessMove were they to lack the test of the game's state.
MoveGuard_AnyState(G, gameId, playerAddress) ==
  IF gameId \notin DOMAIN G THEN "Game not found"
  ELSE LET game == G[gameId] IN
    IF game.chessState = NoChess THEN "Chess state not initialized"
    ELSE IF ~isOwner(game, playerAddress) /\ ~isOpponent(game, playerAddress)
         THEN "You are not a player in this game"
    ELSE IF game.chessState.currentPlayer # playerColor(game, playerAddress)
         THEN "Not your turn"
    ELSE "ok"

MoveGuard(G, gameId, playerAddress) ==
  IF gameId \notin DOMAIN G THEN "Game not found"
  ELSE LET game == G[gameId] IN
    IF game.state # "STARTED" THEN "Game is not active"
    ELSE IF game.chessState = NoChess THEN "Chess state not initialized"
    ELSE IF ~isOwner(game, playerAddress) /\ ~isOpponent(game, playerAddress)
         THEN "You are not a player in this game"
    ELSE IF game.chessState.currentPlayer # playerColor(game, playerAddress)
         THEN "Not your turn"
    ELSE "ok"

GameLobby_makeChessMove(G, gameId, fromRow, fromCol, toRow, toCol, playerAddress, promotionPiece) ==
  LET guard == MoveGuard(G, gameId, playerAddress) IN
  IF guard # "ok" THEN [games |-> G, success |-> FALSE, error |-> guard]
  ELSE LET game == G[gameId]
           result == makeMove(game.chessState, fromRow, fromCol, toRow, toCol,
                              promotionPiece)
       IN IF result.success
          THEN [games |-> MapSet(G, gameId,
                            [game EXCEPT !.chessState = result.newGameState]),
                success |-> TRUE, error |-> "none"]
          ELSE [games |-> G, success |-> FALSE, error |-> result.error]

GameLobby_getValidMoves(G, gameId, row, col, playerAddress) ==
  LET guard == MoveGuard(G, gameId, playerAddress) IN
  IF guard # "ok" THEN [success |-> FALSE, error |-> guard, validMoves |-> {}]
  ELSE [success |-> TRUE, error |-> "none",
        validMoves |-> getValidMoves(G[gameId].chessState, row, col)]

(***************************************************************************)
(* ChessEscrow.sol: the part of the contract that emits the events the     *)
(* poller reads.  A contract state is a function from the game ids it      *)
(* holds to [creator, opponent, opponentPaid]; address(0) is Null.         *)
(***************************************************************************)
Event(type, gameId, sender) == [type |-> type, gameId |-> gameId, sender |-> sender]

Tx(fn, gameId, sender, opponent) ==
  [fn |-> fn, gameId |-> gameId, sender |-> sender, opponent |-> opponent]

Reverted(C) == [games |-> C, events |-> <<>>]

ChessEscrow_createGame(C, gameId, sender, opponent) ==
  IF gameId \in DOMAIN C THEN Reverted(C)
  ELSE [games |-> MapSet(C, gameId, [creator |-> sender, opponent |-> opponent,
                                      opponentPaid |-> FALSE]),
        events |-> <<Event("GameCreated", gameId, sender)>>]

ChessEscrow_joinGame(C, gameId, sender) ==
  IF gameId \notin DOMAIN C THEN Reverted(C)
  ELSE LET game == C[gameId] IN
    IF game.opponentPaid THEN Reverted(C)
    ELSE IF sender = game.creator THEN Reverted(C)
    ELSE IF game.opponent # Null /\ sender # game.opponent THEN Reverted(C)
    ELSE [games |-> MapSet(C, gameId, [game EXCEPT !.opponent = sender,
                                                   !.opponentPaid = TRUE]),
          events |-> <<Event("GameJoined", gameId, sender)>>]

ApplyTx(C, tx) ==
  IF tx.fn = "createGame"
  THEN ChessEscrow_createGame(C, tx.gameId, tx.sender, tx.opponent)
  ELSE ChessEscrow_joinGame(C, tx.gameId, tx.sender)

\* The transactions of one block, run in order.
RECURSIVE ApplyTxs(_, _)
ApplyTxs(C, txs) ==
  IF txs = <<>> THEN [games |-> C, events |-> <<>>]
  ELSE LET first == ApplyTx(C, Head(txs))
           rest == ApplyTxs(first.games, Tail(txs))
       IN [games |-> rest.games, events |-> first.events \o rest.events]

\* contract.queryFilter(filter, fromBlock, toBlock): the events of the type
\* in the blocks fromBlock..toBlock, in block order.
RECURSIVE queryFilter(_, _, _, _)
queryFilter(chain, type, fromBlock, toBlock) ==
  IF fromBlock > toBlock THEN <<>>
  ELSE SelectSeq(chain[fromBlock], LAMBDA e : e.type = type)
         \o queryFilter(chain, type, fromBlock + 1, toBlock)

(***************************************************************************)
(* EventPollingService.ts: what the poller does to the lobby.              *)
(***************************************************************************)
\* GameLobby.createGameFromEvent: an insert keyed by the event's game id that
\* ignores an id the lobby already holds; the new Game is WAITING.
createGameFromEvent(G, id, creator, opponent, createdAt) ==
  IF id \in DOMAIN G THEN G
  ELSE MapSet(G, id, Game(creator, opponent, "WAITING", createdAt))

\* processGameCreatedEvent were it to write the Game whether or not the
\* lobby holds the id.
processGameCreatedEvent_Overwrite(G, event, opponentAddress, t, throws) ==
  IF throws THEN G
  ELSE MapSet(G, event.gameId, Game(event.sender, opponentAddress, "WAITING", t))

\* processGameCreatedEvent were it to leave the lobby as it is.
processGameCreatedEvent_NotApplied(G, event, opponentAddress, t, throws) == G

\* opponentAddress is what contract.getGame gave (Null for address(0) and when
\* the call failed); throws: something inside the try block threw, which the
\* catch swallows.
processGameCreatedEvent(G, event, opponentAddress, t, throws) ==
  IF throws THEN G
  ELSE createGameFromEvent(G, event.gameId, event.sender, opponentAddress, t)

processGameJoinedEvent(G, event, t, throws) ==
  IF throws THEN G
  ELSE IF event.gameId \in DOMAIN G
       THEN [G EXCEPT ![event.gameId] =
               [GameLobby_getGame(G, event.gameId) EXCEPT
                  !.opponent = event.sender,
                  !.state = "STARTED",
                  !.startedAt = t]]
       ELSE G

\* The loop over the GameJoined events of a tick; throwing is the set of
\* positions whose processing throws.
RECURSIVE ProcessJoinedEvents(_, _, _, _, _)
ProcessJoinedEvents(G, events, i, t, throwing) ==
  IF i > Len(events) THEN G
  ELSE ProcessJoinedEvents(
         processGameJoinedEvent(G, events[i], t, i \in throwing),
         events, i + 1, t, throwing)

(***************************************************************************)
(* State.                                                                  *)
(*   games              GameLobby.games                                    *)
(*   resp               the outcome of the last HTTP request               *)
(*   settleCalls        the calls made to BlockchainService.settleGame     *)
(*   chainGames, blocks the escrow contract's games and the chain's blocks *)
(*                      (each block is the sequence of events it emitted)  *)
(*   isPolling, lastProcessedBlock   fields of EventPollingService         *)
(*   ticks              the executions of pollEvents in flight             *)
(***************************************************************************)
VARIABLES games, resp, settleCalls, chainGames, blocks,
          isPolling, lastProcessedBlock, ticks

vars == <<games, resp, settleCalls, chainGames, blocks,
          isPolling, lastProcessedBlock, ticks>>

lobbyVars == <<games, resp>>

chainVars == <<chainGames, blocks>>

pollerVars == <<isPolling, lastProcessedBlock, ticks>>

EmptyMap == [x \in {} |-> Null]

\* new Date(): the wall clock, counted in block intervals.
now == Len(blocks)

(***************************************************************************)
(* Inputs of the model.                                                    *)
(***************************************************************************)
\* Who creates and who joins over HTTP, and whom a creator may name.
HttpCreators == {"0xaa"}

HttpNamedOpponents == {Null}

HttpJoiners == {"0xbb"}

\* Who creates and who joins on the contract, and whom a creator may name.
ChainCreators == {"0xAA"}

ChainNamedOpponents == {"0xBB"}

ChainJoiners == {"0xBB"}

\* The moves requested over HTTP: the four moves of Fool's Mate
\* (f2-f3, e7-e5, g2-g4, Qd8-h4), by any caller, in any order.
Move(fromRow, fromCol, toRow, toCol) ==
  [from |-> Sq(fromRow, fromCol), to |-> Sq(toRow, toCol)]

MoveRequests == {Move(6, 5, 5, 5), Move(1, 4, 3, 4), Move(6, 6, 4, 6), Move(0, 3, 4, 7)}

PromotionRequests == {"none"}

\* The squares whose valid moves are asked for: f2.
QuerySquares == {Sq(6, 5)}

ChainTxs ==
  {Tx("createGame", g, c, o) : g \in GameIds, c \in ChainCreators,
                                 o \in ChainNamedOpponents}
    \cup {Tx("joinGame", g, j, Null) : g \in GameIds, j \in ChainJoiners}

BlockTxs == UNION {[1..k -> ChainTxs] : k \in 0..MaxTxPerBlock}

Init ==
  /\ games = EmptyMap
  /\ resp = "none"
  /\ settleCalls = <<>>
  /\ chainGames = EmptyMap
  /\ blocks = <<>>
  /\ isPolling = FALSE
  /\ lastProcessedBlock = 0
  /\ ticks = EmptyBag

(***************************************************************************)
(* Environment: blocks are mined.                                          *)
(***************************************************************************)
MineBlock(txs) ==
  /\ Len(blocks) < MaxBlock
  /\ LET run == ApplyTxs(chainGames, txs) IN
       /\ chainGames' = run.games
       /\ blocks' = Append(blocks, run.events)
  /\ UNCHANGED <<lobbyVars, settleCalls, pollerVars>>

(***************************************************************************)
(* gameRoutes.ts: each handler below runs without awaiting, so it is one   *)
(* step.                                                                   *)
(***************************************************************************)
\* POST /create
HttpCreateGame(gameId, owner, opponent) ==
  /\ gameId \notin DOMAIN games
  /\ gameId \notin DOMAIN chainGames
  /\ LET r == GameLobby_createGame(games, gameId, owner, opponent, now) IN
       /\ games' = r.games
       /\ resp' = "ok"
  /\ UNCHANGED <<settleCalls, chainVars, pollerVars>>

\* POST /join
HttpJoinGame(gameId, caller) ==
  /\ LET r == GameLobby_joinGame(games, gameId, caller, now) IN
       /\ games' = r.games
       /\ resp' = IF r.result = "null" THEN "error" ELSE "ok"
  /\ UNCHANGED <<settleCalls, chainVars, pollerVars>>

\* POST /:gameId/settle
HttpSettleGame(gameId) ==
  /\ LET r == GameLobby_settleGame(games, gameId, now) IN
       /\ games' = r.games
       /\ resp' = IF r.result = "null" THEN "error" ELSE "ok"
  /\ UNCHANGED <<settleCalls, chainVars, pollerVars>>

\* POST /:gameId/chess/move
HttpMakeMove(gameId, mv, caller, promotionPiece) ==
  /\ LET r == GameLobby_makeChessMove(games, gameId, mv.from.row, mv.from.col,
                                      mv.to.row, mv.to.col, caller, promotionPiece)
     IN /\ games' = r.games
        /\ resp' = IF r.success THEN "ok" ELSE "error"
  /\ UNCHANGED <<settleCalls, chainVars, pollerVars>>

\* GET /:gameId/chess/valid-moves/:row/:col
HttpGetValidMoves(gameId, sq, caller) ==
  /\ LET r == GameLobby_getValidMoves(games, gameId, sq.row, sq.col, caller) IN
       resp' = IF r.success THEN "ok" ELSE "error"
  /\ UNCHANGED <<games, settleCalls, chainVars, pollerVars>>

(***************************************************************************)
(* EventPollingService.ts: startPolling, the interval timer and the steps  *)
(* of pollEvents.  A step runs from one resumed await to the next awaited  *)
(* RPC; a tick's pc names the RPC it awaits.  ticks is the bag of the      *)
(* executions of pollEvents that have not returned.                        *)
(***************************************************************************)
InFlight == BagCardinality(ticks)

Resume(tick, next) == (ticks (-) SetToBag({tick})) (+) SetToBag({next})

Return(tick) == ticks (-) SetToBag({tick})

\* pollEvents up to its first await: provider.getBlockNumber() is called.
BeginPoll ==
  [pc |-> "getBlock", currentBlock |-> 0, gameCreatedEvents |-> <<>>, idx |-> 0,
   gameJoinedEvents |-> <<>>]

\* The query for the GameJoined events of the tick is sent.
QueryJoined(tick, chain, lastProcessed) ==
  [tick EXCEPT !.pc = "queryJoined",
               !.gameJoinedEvents = queryFilter(chain, "GameJoined",
                                                lastProcessed + 1, tick.currentBlock),
               !.idx = 0]

\* startPolling, resumed with the block number: the timer is set and the
\* first pollEvents is called at once.
startPolling ==
  /\ ~isPolling
  /\ lastProcessedBlock' = Len(blocks)
  /\ isPolling' = TRUE
  /\ ticks' = ticks (+) SetToBag({BeginPoll})
  /\ UNCHANGED <<lobbyVars, settleCalls, chainVars>>

\* The setInterval callback: it calls pollEvents whatever the earlier calls
\* are doing.
TimerTick ==
  /\ isPolling
  /\ InFlight < MaxTicks
  /\ ticks' = ticks (+) SetToBag({BeginPoll})
  /\ UNCHANGED <<lobbyVars, settleCalls, chainVars, isPolling,
                 lastProcessedBlock>>

\* getBlockNumber answered.
PollGotBlock(tick) ==
  /\ tick.pc = "getBlock"
  /\ LET currentBlock == Len(blocks) IN
       ticks' = IF currentBlock <= lastProcessedBlock THEN Return(tick)
                ELSE Resume(tick,
                       [tick EXCEPT
                          !.pc = "queryCreated",
                          !.currentBlock = currentBlock,
                          !.gameCreatedEvents =
                             queryFilter(blocks, "GameCreated",
                                         lastProcessedBlock + 1, currentBlock)])
  /\ UNCHANGED <<lobbyVars, settleCalls, chainVars, isPolling,
                 lastProcessedBlock>>

\* The GameCreated query answered.
PollGotCreated(tick) ==
  /\ tick.pc = "queryCreated"
  /\ ticks' = Resume(tick,
       IF tick.gameCreatedEvents = <<>>
       THEN QueryJoined(tick, blocks, lastProcessedBlock)
       ELSE [tick EXCEPT !.pc = "getGame", !.idx = 1])
  /\ UNCHANGED <<lobbyVars, settleCalls, chainVars, isPolling,
                 lastProcessedBlock>>

\* contract.getGame of processGameCreatedEvent answered ("ok"), failed
\* ("getGameFailed": the opponent is taken as null), or the processing of
\* the event threw ("throws"); then the next event, or the GameJoined query.
PollGotGame(tick, outcome) ==
  /\ tick.pc = "getGame"
  /\ LET event == tick.gameCreatedEvents[tick.idx]
         opponentAddress == IF outcome = "ok"
                            THEN chainGames[event.gameId].opponent ELSE Null
     IN /\ games' = processGameCreatedEvent(games, event, opponentAddress, now,
                                            outcome = "throws")
        /\ ticks' = Resume(tick,
             IF tick.idx = Len(tick.gameCreatedEvents)
             THEN QueryJoined(tick, blocks, lastProcessedBlock)
             ELSE [tick EXCEPT !.idx = tick.idx + 1])
  /\ UNCHANGED <<resp, settleCalls, chainVars, isPolling, lastProcessedBlock>>

\* The GameJoined query answered: processGameJoinedEvent awaits nothing, so
\* the loop over the events and the assignment to lastProcessedBlock run
\* without interruption.
PollGotJoined(tick, throwing) ==
  /\ tick.pc = "queryJoined"
  /\ games' = ProcessJoinedEvents(games, tick.gameJoinedEvents, 1, now, throwing)
  /\ lastProcessedBlock' = tick.currentBlock
  /\ ticks' = Return(tick)
  /\ UNCHANGED <<resp, settleCalls, chainVars, isPolling>>

\* An awaited RPC of pollEvents rejected: the catch logs and the tick ends.
PollRpcError(tick) ==
  /\ tick.pc \in {"getBlock", "queryCreated", "queryJoined"}
  /\ ticks' = Return(tick)
  /\ UNCHANGED <<lobbyVars, settleCalls, chainVars, isPolling,
                 lastProcessedBlock>>

Next ==
  \/ \E txs \in BlockTxs : MineBlock(txs)
  \/ \E g \in GameIds, o \in HttpCreators, p \in HttpNamedOpponents :
        HttpCreateGame(g, o, p)
  \/ \E g \in GameIds, a \in HttpJoiners : HttpJoinGame(g, a)
  \/ \E g \in GameIds : HttpSettleGame(g)
  \/ \E g \in GameIds, mv \in MoveRequests, a \in LowerAddresses,
        p \in PromotionRequests : HttpMakeMove(g, mv, a, p)
  \/ \E g \in GameIds, sq \in QuerySquares, a \in LowerAddresses :
        HttpGetValidMoves(g, sq, a)
  \/ startPolling
  \/ TimerTick
  \/ \E tick \in BagToSet(ticks) : PollGotBlock(tick)
  \/ \E tick \in BagToSet(ticks) : PollGotCreated(tick)
  \/ \E tick \in BagToSet(ticks), outcome \in {"ok", "getGameFailed", "throws"} :
        PollGotGame(tick, outcome)
  \/ \E tick \in BagToSet(ticks) : \E throwing \in SUBSET (1..Len(tick.gameJoinedEvents)) :
        PollGotJoined(tick, throwing)
  \/ \E tick \in BagToSet(ticks) : PollRpcError(tick)

Spec == Init /\ [][Next]_vars

(***************************************************************************)
(* Properties.                                                             *)
(***************************************************************************)
TerminalStatuses == {"checkmate", "stalemate"}

\* The step is an accepted POST /:gameId/chess/move on game g whose resulting
\* chess gameStatus is in statuses.
AcceptedMove(g, statuses) ==
  \E mv \in MoveRequests, a \in LowerAddresses, p \in PromotionRequests :
    LET r == GameLobby_makeChessMove(games, g, mv.from.row, mv.from.col,
                                     mv.to.row, mv.to.col, a, p)
    IN /\ HttpMakeMove(g, mv, a, p)
       /\ r.success
       /\ r.games[g].chessState.gameStatus \in statuses

\* The step is the end of a tick: the GameJoined events are processed and
\* lastProcessedBlock is assigned.
JoinedStep(tick) ==
  \E throwing \in SUBSET (1..Len(tick.gameJoinedEvents)) :
    PollGotJoined(tick, throwing)

\* C1: settlement trigger.  A Game becomes SETTLED exactly when an accepted
\* move on it produces checkmate or stalemate: (a) every accepted move whose
\* resulting gameStatus is checkmate or stalemate leaves the game SETTLED, and
\* (b) no other step (a non-terminal move, the settle route, a poller event)
\* moves a game to SETTLED.
C1_SettlementTrigger ==
  [][\A g \in DOMAIN games :
       /\ AcceptedMove(g, TerminalStatuses) => games'[g].state = "SETTLED"
       /\ (games[g].state # "SETTLED" /\ games'[g].state = "SETTLED")
            => AcceptedMove(g, TerminalStatuses)]_vars

\* C2: checkmate settlement call.  An accepted move that produces checkmate
\* issues exactly one call settleGame(gameId, winnerAddress), winnerAddress
\* being the owner if the engine's winner is white and the opponent if it is
\* black; a move that produces stalemate issues none.
C2_CheckmateSettlementCall ==
  [][\A g \in DOMAIN games :
       /\ AcceptedMove(g, {"checkmate"}) =>
            settleCalls' = Append(settleCalls,
              [gameId |-> g,
               winnerAddress |-> IF games'[g].chessState.winner = "white"
                                 THEN games'[g].owner ELSE games'[g].opponent])
       /\ AcceptedMove(g, {"stalemate"}) => settleCalls' = settleCalls]_vars

\* C3: Game.winner is set if and only if the game is SETTLED and ended by
\* checkmate, and then it is the engine's winner colour.
C3_WinnerIffSettledByCheckmate ==
  \A g \in DOMAIN games :
    LET game == games[g]
        byCheckmate == game.state = "SETTLED"
                         /\ game.chessState.gameStatus = "checkmate"
    IN /\ (game.winner # "none") <=> byCheckmate
       /\ byCheckmate => game.winner = game.chessState.winner

\* C4: every Game that is STARTED or SETTLED has an opponent and a chessState.
C4_StartedHasOpponentAndChessState ==
  \A g \in DOMAIN games :
    games[g].state \in {"STARTED", "SETTLED"} =>
      games[g].opponent # Null /\ games[g].chessState # NoChess

\* C5: join reconciliation.  When the poller processes GameJoined(gameId,
\* joiner) for a Game the lobby holds in state CREATED or WAITING, afterwards
\* the game has opponent = joiner, state STARTED, startedAt set and the
\* initial position as chessState, and the owner's first move is accepted.
C5_JoinReconciliation ==
  [][\A tick \in BagToSet(ticks) :
       \A i \in 1..Len(tick.gameJoinedEvents) :
         LET event == tick.gameJoinedEvents[i]
             g == event.gameId
         IN (/\ PollGotJoined(tick, {})
             /\ g \in DOMAIN games
             /\ games[g].state \in {"CREATED", "WAITING"})
            => /\ games'[g].opponent = event.sender
               /\ games'[g].state = "STARTED"
               /\ games'[g].startedAt # NoTime
               /\ games'[g].chessState = createInitialPosition
               /\ GameLobby_makeChessMove(games', g, 6, 5, 5, 5,
                     toLowerCase(games'[g].owner), "none").success]_vars

\* C6: join idempotence.  Processing a GameJoined event for a Game whose
\* state is neither CREATED nor WAITING leaves the Game as it was.
C6_JoinIdempotence ==
  [][\A tick \in BagToSet(ticks) :
       \A i \in 1..Len(tick.gameJoinedEvents) :
         LET g == tick.gameJoinedEvents[i].gameId
         IN (/\ JoinedStep(tick)
             /\ g \in DOMAIN games
             /\ games[g].state \notin {"CREATED", "WAITING"})
            => games'[g] = games[g]]_vars

C8_NoOverlappingTicks == BagCardinality(ticks) <= 1

\* C9: poller retry.  A tick assigns lastProcessedBlock only if every event
\* of its range was processed: every GameCreated event's game is in the
\* lobby and every GameJoined event of a game the lobby holds has started it
\* with the joiner as opponent; a tick whose RPC fails leaves
\* lastProcessedBlock as it was.
C9_PollerRetry ==
  [][\A tick \in BagToSet(ticks) :
       /\ PollRpcError(tick) => lastProcessedBlock' = lastProcessedBlock
       /\ JoinedStep(tick) =>
            /\ \A i \in 1..Len(tick.gameCreatedEvents) :
                 tick.gameCreatedEvents[i].gameId \in DOMAIN games'
            /\ \A i \in 1..Len(tick.gameJoinedEvents) :
                 LET event == tick.gameJoinedEvents[i] IN
                   event.gameId \in DOMAIN games =>
                     /\ games'[event.gameId].state = "STARTED"
                     /\ games'[event.gameId].opponent = event.sender]_vars

\* C10: move authorization.  For a STARTED game, makeChessMove and
\* getValidMoves called by an address that is neither owner nor opponent
\* answer the not-participant error, and called by a participant whose colour
\* is not chessState.currentPlayer answer the not-your-turn error; the lobby
\* is left as it was.
C10_MoveAuthorization ==
  \A g \in DOMAIN games : \A a \in LowerAddresses :
    \A mv \in MoveRequests, sq \in QuerySquares :
      LET game == games[g]
          moved == GameLobby_makeChessMove(games, g, mv.from.row, mv.from.col,
                                           mv.to.row, mv.to.col, a, "none")
          asked == GameLobby_getValidMoves(games, g, sq.row, sq.col, a)
          Refused(error) == /\ ~moved.success
                            /\ moved.error = error
                            /\ moved.games = games
                            /\ ~asked.success
                            /\ asked.error = error
      IN game.state = "STARTED" =>
           /\ (~isOwner(game, a) /\ ~isOpponent(game, a))
                => Refused("You are not a player in this game")
           /\ (/\ isOwner(game, a) \/ isOpponent(game, a)
               /\ game.chessState # NoChess
               /\ game.chessState.currentPlayer # playerColor(game, a))
                => Refused("Not your turn")

(***************************************************************************)
(* The chess routes played along scripted games.  A client of one STARTED  *)
(* game sends POST /:gameId/chess/move requests; the accepted ones follow  *)
(* one of the games of Lines, each chosen to reach a rule of ChessEngine   *)
(* (mate, stalemate, castling, en passant, promotion).  Squares are        *)
(* [row, col], row 0 being Black's back rank and col 0 the a-file.         *)
(***************************************************************************)
\* 1. f3 e5 2. g4 Qh4#
FoolsMate == <<Move(6,5,5,5), Move(1,4,3,4), Move(6,6,4,6), Move(0,3,4,7)>>

\* 1. e4 e5 2. Bc4 Nc6 3. Qh5 Nf6 4. Qxf7#
ScholarsMate ==
  <<Move(6,4,4,4), Move(1,4,3,4), Move(7,5,4,2), Move(0,1,2,2),
    Move(7,3,3,7), Move(0,6,2,5), Move(3,7,1,5)>>

\* 1. e3 a5 2. Qh5 Ra6 3. Qxa5 h5 4. h4 Rah6 5. Qxc7 f6 6. Qxd7+ Kf7
\* 7. Qxb7 Qd3 8. Qxb8 Qh7 9. Qxc8 Kg6 10. Qe6, Black has no move.
QuickStalemate ==
  <<Move(6,4,5,4), Move(1,0,3,0), Move(7,3,3,7), Move(0,0,2,0),
    Move(3,7,3,0), Move(1,7,3,7), Move(6,7,4,7), Move(2,0,2,7),
    Move(3,0,1,2), Move(1,5,2,5), Move(1,2,1,3), Move(0,4,1,5),
    Move(1,3,1,1), Move(0,3,5,3), Move(1,1,0,1), Move(5,3,1,7),
    Move(0,1,0,2), Move(1,5,2,6), Move(0,2,2,4)>>

\* 1. e4 e5 2. Nf3 Nf6 3. Be2 Be7 4. Kf1 Kf8 5. Ke1 Ke8 6. O-O: both kings
\* leave their home square and return, then White asks to castle.
KingReturns ==
  <<Move(6,4,4,4), Move(1,4,3,4), Move(7,6,5,5), Move(0,6,2,5),
    Move(7,5,6,4), Move(0,5,1,4), Move(7,4,7,5), Move(0,4,0,5),
    Move(7,5,7,4), Move(0,5,0,4), Move(7,4,7,6)>>

\* 1. g3 b6 2. Bg2 Ba6 3. Nf3 h6 4. e3 h5 5. O-O: the bishop on a6 attacks
\* f1, the square the king passes over.
CastleThroughAttack ==
  <<Move(6,6,5,6), Move(1,1,2,1), Move(7,5,6,6), Move(0,2,2,0),
    Move(7,6,5,5), Move(1,7,2,7), Move(6,4,5,4), Move(2,7,3,7),
    Move(7,4,7,6)>>

\* 1. a3 d5 2. a4 d4 3. e4 h6: the e-pawn passes the black pawn on d4, which
\* may capture it en passant on e3.
EnPassantChance ==
  <<Move(6,0,5,0), Move(1,3,3,3), Move(5,0,4,0), Move(3,3,4,3),
    Move(6,4,4,4), Move(1,7,2,7)>>

\* 1. g3 f5 2. Bg2 f4 3. a3 f3 4. a4 e6 5. a5 Ke7 6. h3 Kd6 7. h4 Kc6
\* 8. e4 and the black pawn on f3 steps sideways onto e3.
SidewaysPawn ==
  <<Move(6,6,5,6), Move(1,5,3,5), Move(7,5,6,6), Move(3,5,4,5),
    Move(6,0,5,0), Move(4,5,5,5), Move(5,0,4,0), Move(1,4,2,4),
    Move(4,0,3,0), Move(0,4,1,4), Move(6,7,5,7), Move(1,4,2,3),
    Move(5,7,4,7), Move(2,3,2,2), Move(6,4,4,4), Move(5,5,5,4)>>

\* 1. h4 g5 2. hxg5 a6 3. g6 a5 4. gxh7 a4 5. hxg8: a white pawn reaches
\* Black's back rank.
PawnToLastRank ==
  <<Move(6,7,4,7), Move(1,6,3,6), Move(4,7,3,6), Move(1,0,2,0),
    Move(3,6,2,6), Move(2,0,3,0), Move(2,6,1,7), Move(3,0,4,0),
    Move(1,7,0,6)>>

\* 1. h4 a6 2. Rh2 a5 3. e3 a4 4. Ke2 b6 5. f3 b5 6. g3 c6 7. Ke2-g2: the
\* white king stands on e2 with f2 and g2 empty and its rook on h2.
CastleFromSecondRank ==
  <<Move(6,7,4,7), Move(1,0,2,0), Move(7,7,6,7), Move(2,0,3,0),
    Move(6,4,5,4), Move(3,0,4,0), Move(7,4,6,4), Move(1,1,2,1),
    Move(6,5,5,5), Move(2,1,3,1), Move(6,6,5,6), Move(1,2,2,2),
    Move(6,4,6,6)>>

\* 1. Nf3 a6 2. e3 a5 3. Bd3 a4 4. Qe2 h6 5. Kd1 h5 6. Kd1-g1: the white
\* king stands on d1 with f1 and g1 empty and its rook on h1.
KingLeap ==
  <<Move(7,6,5,5), Move(1,0,2,0), Move(6,4,5,4), Move(2,0,3,0),
    Move(7,5,5,3), Move(3,0,4,0), Move(7,3,6,4), Move(1,7,2,7),
    Move(7,4,7,3), Move(2,7,3,7), Move(7,3,7,6)>>

Lines ==
  {FoolsMate, ScholarsMate, QuickStalemate, KingReturns, CastleThroughAttack,
   EnPassantChance, SidewaysPawn, PawnToLastRank, CastleFromSecondRank, KingLeap}

\* The game every scripted request addresses, and its two players.
EngineGameId == CHOOSE g \in GameIds : TRUE
EnginePlayers == {"0xaa", "0xbb"}
EnginePromotionRequests == {"none", "knight"}

\* The [from, to] pairs of a move history.
Played(moveHistory) ==
  [i \in 1..Len(moveHistory) |-> [from |-> moveHistory[i].from, to |-> moveHistory[i].to]]

\* The requests that continue a scripted game from the chess state.
NextRequests(chessState) ==
  LET k == Len(chessState.moveHistory) IN
  {line[k + 1] : line \in {l \in Lines : /\ k < Len(l)
                                          /\ SubSeq(l, 1, k) = Played(chessState.moveHistory)}}

\* The game is STARTED with a chess state.
Playing(gameId) ==
  /\ gameId \in DOMAIN games
  /\ games[gameId].chessState # NoChess

\* POST /:gameId/chess/move with the next move of a scripted game, sent by
\* either player.
ScriptedMove(caller, promotionPiece) ==
  /\ Playing(EngineGameId)
  /\ \E mv \in NextRequests(games[EngineGameId].chessState) :
       HttpMakeMove(EngineGameId, mv, caller, promotionPiece)

\* GET /:gameId/chess/valid-moves for the piece the scripted game moves next.
ScriptedQuery(caller) ==
  /\ Playing(EngineGameId)
  /\ \E mv \in NextRequests(games[EngineGameId].chessState) :
       HttpGetValidMoves(EngineGameId, mv.from, caller)

NextEngine ==
  \/ \E o \in HttpCreators : HttpCreateGame(EngineGameId, o, Null)
  \/ \E a \in HttpJoiners : HttpJoinGame(EngineGameId, a)
  \/ \E a \in EnginePlayers, p \in EnginePromotionRequests : ScriptedMove(a, p)
  \/ \E a \in EnginePlayers : ScriptedQuery(a)

SpecEngine == Init /\ [][NextEngine]_vars

(***************************************************************************)
(* Properties of the chess routes, checked under SpecEngine.               *)
(***************************************************************************)
\* The chess state of the scripted game.
EngineState == games[EngineGameId].chessState

\* The number of moves of the colour in a move history.
MovesBy(moveHistory, color) ==
  Cardinality({i \in 1..Len(moveHistory) : moveHistory[i].piece.color = color})

\* Every state of the game counts its accepted moves: White is to move iff
\* their number is even, fullMoveNumber is one more than Black's moves, and
\* the movers are White, Black, White, ...
C11_Counts ==
  Playing(EngineGameId) =>
    LET S == EngineState
        n == Len(S.moveHistory)
    IN /\ (S.currentPlayer = "white") <=> (n % 2 = 0)
       /\ S.fullMoveNumber = 1 + MovesBy(S.moveHistory, "black")
       /\ \A i \in 1..n :
            S.moveHistory[i].piece.color = IF i % 2 = 1 THEN "white" ELSE "black"

\* A move request of either player: accepted, it comes from the player whose
\* colour is to move (the owner for White, the opponent for Black), adds one
\* move to moveHistory, hands the turn over and advances fullMoveNumber after
\* a Black move only; rejected, it leaves the game as it was.
C11_Request ==
  Playing(EngineGameId) =>
    \A mv \in NextRequests(EngineState), a \in EnginePlayers, p \in EnginePromotionRequests :
      HttpMakeMove(EngineGameId, mv, a, p) =>
        LET S == EngineState
            game == games[EngineGameId]
            T == games'[EngineGameId].chessState
            r == GameLobby_makeChessMove(games, EngineGameId, mv.from.row, mv.from.col,
                                         mv.to.row, mv.to.col, a, p)
        IN IF r.success
           THEN /\ playerColor(game, a) = S.currentPlayer
                /\ isOwner(game, a) <=> (S.currentPlayer = "white")
                /\ isOpponent(game, a) <=> (S.currentPlayer = "black")
                /\ Len(T.moveHistory) = Len(S.moveHistory) + 1
                /\ T.currentPlayer = Opposite(S.currentPlayer)
                /\ T.fullMoveNumber =
                     S.fullMoveNumber + (IF S.currentPlayer = "black" THEN 1 ELSE 0)
           ELSE games' = games

\* C11: turn alternation.  After n accepted moves from the initial position
\* currentPlayer is White iff n is even, fullMoveNumber is 1 plus the number
\* of accepted Black moves and moveHistory has length n; a rejected request
\* changes none of them; whatever the order in which the two players'
\* requests arrive, the accepted moves alternate between owner and opponent.
C11_TurnAlternation == []C11_Counts /\ [][C11_Request]_vars

\* Three moves are accepted, Black's among them, and a request was rejected.
C11_Witness ==
  /\ Playing(EngineGameId)
  /\ Len(EngineState.moveHistory) = 3
  /\ EngineState.fullMoveNumber = 2
  /\ resp = "error"

\* The squares of the board.
Squares == {Sq(r, c) : r \in Idx, c \in Idx}

\* C12: round trip.  In every reachable chess state S, for all squares from
\* and to: to is in validMoves(S, from) iff makeMove(S, from, to) succeeds.
C12_RoundTrip ==
  Playing(EngineGameId) =>
    \A from \in Squares, to \in Squares :
      (to \in getValidMoves(EngineState, from.row, from.col))
        <=> makeMove(EngineState, from.row, from.col, to.row, to.col, "none").success

\* C13: king safety.  Every move that validMoves returns is one of the piece's
\* raw geometric moves, and the position makeMove produces from it (the
\* en-passant-captured pawn removed, the castling rook moved) has the mover's
\* own king not attacked: no accepted move leaves the mover's king in check.
C13_KingSafety ==
  Playing(EngineGameId) =>
    \A from \in Squares :
      \A to \in getValidMoves(EngineState, from.row, from.col) :
        LET result == makeMove(EngineState, from.row, from.col, to.row, to.col, "none") IN
          /\ to \in getRawMoves(EngineState, from.row, from.col)
          /\ result.success =>
               ~isKingInCheckAfterMove(result.newGameState, EngineState.currentPlayer)

\* The scripted game has been played to its last move.
Finished(line) ==
  /\ Playing(EngineGameId)
  /\ Played(EngineState.moveHistory) = line

\* An enemy piece has the king's square among its raw moves.
KingAttacked(gameState, color) ==
  \E sq \in Squares :
    /\ gameState.board[sq.row][sq.col].color = Opposite(color)
    /\ findKing(gameState, color) \in getRawMoves(gameState, sq.row, sq.col)

\* The side to move has a valid move.
CanMove(gameState) ==
  \E sq \in Squares : getValidMoves(gameState, sq.row, sq.col) # {}

\* Black king on (0,0), White king on (2,1) and queen on (1,2), Black to move.
LoneKingPosition ==
  [createInitialPosition EXCEPT
     !.board = [r \in Idx |-> [c \in Idx |->
                  CASE r = 0 /\ c = 0 -> Piece("king", "black")
                    [] r = 2 /\ c = 1 -> Piece("king", "white")
                    [] r = 1 /\ c = 2 -> Piece("queen", "white")
                    [] OTHER -> NoPiece]],
     !.currentPlayer = "black"]

\* C14: terminal detection.  After each accepted move gameStatus is checkmate
\* (winner = the mover) iff the side now to move is in check and has no valid
\* move, check iff it is in check and has one, stalemate (winner unset) iff it
\* is not in check and has none, and active otherwise.  Fool's Mate ends in
\* checkmate with winner black, Scholar's Mate in checkmate with winner
\* white, and the lone Black king on (0,0) against king (2,1) and queen (1,2),
\* Black to move, is stalemate.
C14_TerminalDetection ==
  /\ updateGameStatus(LoneKingPosition).gameStatus = "stalemate"
  /\ updateGameStatus(LoneKingPosition).winner = "none"
  /\ (Playing(EngineGameId) /\ EngineState.moveHistory # <<>>) =>
       LET S == EngineState
           inCheck == KingAttacked(S, S.currentPlayer)
           canMove == CanMove(S)
       IN /\ (S.gameStatus = "checkmate") <=> (inCheck /\ ~canMove)
          /\ (S.gameStatus = "check") <=> (inCheck /\ canMove)
          /\ (S.gameStatus = "stalemate") <=> (~inCheck /\ ~canMove)
          /\ (S.gameStatus = "active") <=> (~inCheck /\ canMove)
          /\ (S.gameStatus = "checkmate") => (S.winner = Opposite(S.currentPlayer))
          /\ (S.gameStatus = "stalemate") => (S.winner = "none")
          /\ Finished(FoolsMate) => (S.gameStatus = "checkmate" /\ S.winner = "black")
          /\ Finished(ScholarsMate) => (S.gameStatus = "checkmate" /\ S.winner = "white")

\* A game played from the initial position has ended in stalemate.
C14_Witness ==
  /\ Finished(QuickStalemate)
  /\ EngineState.gameStatus = "stalemate"
  /\ ~KingAttacked(EngineState, "black")

\* The row of the colour's back rank.
HomeRow(color) == IF color = "white" THEN 7 ELSE 0

\* The castling moves among the valid moves of the colour's king.
CastlingMoves(gameState, color) ==
  LET king == findKing(gameState, color) IN
  {to \in getValidMoves(gameState, king.row, king.col) : Abs(to.col - king.col) = 2}

\* The castling rights a colour has lost by the rules: both by a king move,
\* one by a rook move from its corner or by a capture on that corner.
C15_Revoked ==
  Playing(EngineGameId) =>
    \A color \in {"white", "black"} :
      LET S == EngineState
          rights == S.castlingRights[color]
          KingMove(m) == m.piece = Piece("king", color)
          LeavesCorner(m, col) == m.piece = Piece("rook", color) /\ m.from = Sq(HomeRow(color), col)
          TakesCorner(m, col) == m.capturedPiece # NoPiece /\ m.to = Sq(HomeRow(color), col)
          KingSide(m) == LeavesCorner(m, 7) \/ TakesCorner(m, 7)
          QueenSide(m) == LeavesCorner(m, 0) \/ TakesCorner(m, 0)
      IN /\ (\E i \in DOMAIN S.moveHistory : KingMove(S.moveHistory[i])) =>
              /\ ~rights.kingSide /\ ~rights.queenSide
              /\ (S.currentPlayer = color => CastlingMoves(S, color) = {})
         /\ (\E i \in DOMAIN S.moveHistory : KingSide(S.moveHistory[i])) => ~rights.kingSide
         /\ (\E i \in DOMAIN S.moveHistory : QueenSide(S.moveHistory[i])) => ~rights.queenSide

\* A castling right that is false stays false.
C15_NeverRestored ==
  (Playing(EngineGameId) /\ Playing(EngineGameId)') =>
    \A color \in {"white", "black"} :
      LET old == EngineState.castlingRights[color]
          new == EngineState'.castlingRights[color]
      IN (new.kingSide => old.kingSide) /\ (new.queenSide => old.queenSide)

\* C15: castling-rights revocation.  After any accepted king move both
\* castling rights of the mover are false; after a rook move from its home
\* corner, or a capture on a home rook square, the corresponding right is
\* false; rights never become true again; a king that has moved and returned
\* to its home square has no castling move among its valid moves.
C15_CastlingRightsRevocation == []C15_Revoked /\ [][C15_NeverRestored]_vars

\* A piece of the colour attacks the square.
SquareAttacked(gameState, target, byColor) ==
  \E sq \in Squares :
    /\ gameState.board[sq.row][sq.col].color = byColor
    /\ canPieceAttackSquare(gameState, sq.row, sq.col, target.row, target.col)

\* C16: strict castling.  A castling move is among the valid moves only if
\* the square the king passes over (col 5 king-side, col 3 queen-side) is not
\* attacked by the enemy, and the destination square is not attacked either.
C16_StrictCastling ==
  Playing(EngineGameId) =>
    LET S == EngineState
        color == S.currentPlayer
        king == findKing(S, color)
    IN \A to \in CastlingMoves(S, color) :
         LET transit == Sq(king.row, IF to.col > king.col THEN 5 ELSE 3) IN
           /\ ~SquareAttacked(S, transit, Opposite(color))
           /\ ~SquareAttacked(S, to, Opposite(color))

\* The row direction in which the colour's pawns advance.
Forward(color) == IF color = "white" THEN -1 ELSE 1

\* The move is a pawn's two-square advance.
IsDoubleStep(move) == move.piece.type = "pawn" /\ Abs(move.to.row - move.from.row) = 2

\* The pawn's move from -> to is one step diagonally forward.
IsDiagonalStep(color, from, to) ==
  to.row = from.row + Forward(color) /\ Abs(to.col - from.col) = 1

\* C17: en passant.  Right after an enemy pawn's two-square advance that
\* skipped square T, a pawn of the side to move standing beside the advanced
\* pawn has the diagonal move onto T among its valid moves, and executing it
\* puts the pawn on T and removes the enemy pawn behind T; the capture is
\* available on that one move only; no pawn move other than this diagonal
\* capture is generated from enPassantTarget.
C17_EnPassant ==
  Playing(EngineGameId) =>
    LET S == EngineState
        color == S.currentPlayer
        last == S.lastMove
        chance == S.moveHistory # <<>> /\ IsDoubleStep(last)
        T == Sq((last.from.row + last.to.row) \div 2, last.from.col)
        Pawns == {sq \in Squares : S.board[sq.row][sq.col] = Piece("pawn", color)}
    IN \A from \in Pawns :
         /\ (chance /\ from.row = last.to.row /\ Abs(from.col - last.to.col) = 1) =>
              /\ T \in getValidMoves(S, from.row, from.col)
              /\ LET result == makeMove(S, from.row, from.col, T.row, T.col, "none") IN
                   /\ result.success
                   /\ result.newGameState.board[T.row][T.col] = Piece("pawn", color)
                   /\ result.newGameState.board[last.to.row][last.to.col] = NoPiece
         /\ \A to \in getValidMoves(S, from.row, from.col) :
              /\ (to.col # from.col /\ S.board[to.row][to.col] = NoPiece) =>
                   (chance /\ to = T)
              /\ (S.enPassantTarget # NoSquare /\ to = S.enPassantTarget) =>
                   IsDiagonalStep(color, from, to)

\* C18: promotion.  After an accepted move in which a pawn lands on row 0 or
\* row 7 the destination square holds a piece of the mover's colour whose
\* type is the requested promotionPiece if one was given and queen otherwise;
\* no pawn ever stands on row 0 or row 7.
C18_Promotion ==
  Playing(EngineGameId) =>
    LET S == EngineState
        color == S.currentPlayer
    IN /\ \A sq \in Squares : sq.row \in {0, 7} => S.board[sq.row][sq.col].type # "pawn"
       /\ \A from \in Squares : \A to \in getValidMoves(S, from.row, from.col) :
            (S.board[from.row][from.col].type = "pawn" /\ to.row \in {0, 7}) =>
              \A p \in EnginePromotionRequests :
                LET result == makeMove(S, from.row, from.col, to.row, to.col, p) IN
                  /\ result.success
                  /\ result.newGameState.board[to.row][to.col] =
                       Piece(IF p = "none" THEN "queen" ELSE p, color)

(***************************************************************************)
(* The lobby routes with every kind of opponent: POST /create naming no    *)
(* opponent, another person (in lower or in mixed case) or the creator,    *)
(* and POST /join by the creator or by somebody else.  The poller is not   *)
(* started; blocks are mined for the passing of time.                      *)
(***************************************************************************)
LobbyNamedOpponents == {Null, "0xbb", "0xBB", "0xaa"}
LobbyJoiners == {"0xaa", "0xbb", "0xcc"}

NextLobby ==
  \/ MineBlock(<<>>)
  \/ \E g \in GameIds, o \in HttpCreators, p \in LobbyNamedOpponents :
        HttpCreateGame(g, o, p)
  \/ \E g \in GameIds, a \in LobbyJoiners : HttpJoinGame(g, a)
  \/ \E g \in GameIds : HttpSettleGame(g)
  \/ \E g \in GameIds, mv \in MoveRequests, a \in LobbyJoiners,
        p \in PromotionRequests : HttpMakeMove(g, mv, a, p)
  \/ \E g \in GameIds, sq \in QuerySquares, a \in LobbyJoiners :
        HttpGetValidMoves(g, sq, a)

SpecLobby == Init /\ [][NextLobby]_vars

(***************************************************************************)
(* Properties of the lobby routes, checked under SpecLobby.                *)
(***************************************************************************)
\* C19: every Game in state CREATED has no opponent and every Game in state
\* WAITING has one, whichever way it was created (POST /create with or
\* without a named opponent, a GameCreated event with or without one).
C19_OpponentMatchesState ==
  \A g \in DOMAIN games :
    /\ games[g].state = "CREATED" => games[g].opponent = Null
    /\ games[g].state = "WAITING" => games[g].opponent # Null

\* C20: every Game with an opponent has owner and opponent different
\* (compared without regard to case); no sequence of create and join lets
\* one address play both White and Black of a game.
C20_DistinctPlayers ==
  \A g \in DOMAIN games :
    games[g].opponent # Null =>
      toLowerCase(games[g].owner) # toLowerCase(games[g].opponent)

(***************************************************************************)
(* GameLobby.ts: the list queries.  A list is modelled by the set of the   *)
(* ids of the games it holds.                                              *)
(***************************************************************************)
GameLobby_getGamesByOwner(G, owner) == {g \in DOMAIN G : G[g].owner = owner}

GameLobby_getGamesByOpponent(G, opponent) == {g \in DOMAIN G : G[g].opponent = opponent}

GameLobby_getOpenGames(G) ==
  {g \in DOMAIN G : G[g].state = "CREATED" /\ G[g].opponent = Null}

GameLobby_getActiveGames(G, userAddress) ==
  {g \in DOMAIN G : /\ G[g].state = "STARTED"
                    /\ \/ toLowerCase(G[g].owner) = toLowerCase(userAddress)
                       \/ /\ G[g].opponent # Null
                          /\ toLowerCase(G[g].opponent) = toLowerCase(userAddress)}

\* The two spellings of one address agree on every lobby query and check.
SameAnswers(G, a, b) ==
  /\ GameLobby_getGamesByOwner(G, a) = GameLobby_getGamesByOwner(G, b)
  /\ GameLobby_getGamesByOpponent(G, a) = GameLobby_getGamesByOpponent(G, b)
  /\ GameLobby_getActiveGames(G, a) = GameLobby_getActiveGames(G, b)
  /\ \A g \in GameIds :
       /\ GameLobby_joinGame(G, g, a, now).result = GameLobby_joinGame(G, g, b, now).result
       /\ MoveGuard(G, g, a) = MoveGuard(G, g, b)

\* C21: every address comparison of the lobby is case-insensitive.  For two
\* addresses that differ only in letter case, the lists by owner, by opponent
\* and of active games, the named-opponent check of join and the participant
\* and turn checks of a move give the same result.
C21_CaseInsensitive ==
  \A a \in LowerAddresses \cup ChecksumAddresses, b \in LowerAddresses \cup ChecksumAddresses :
    toLowerCase(a) = toLowerCase(b) => SameAnswers(games, a, b)

(***************************************************************************)
(* Properties of the whole server, checked under Spec.                     *)
(***************************************************************************)
\* The addresses a lobby operation can be given.
AnyAddress == LowerAddresses \cup ChecksumAddresses

\* The lobbies that one operation of GameLobby makes of the lobby G at time t.
LobbyOperationResults(G, t) ==
  {GameLobby_createGame(G, g, a, b, t).games :
      g \in GameIds, a \in AnyAddress, b \in AnyAddress \cup {Null}}
  \cup {createGameFromEvent(G, g, a, b, t) :
      g \in GameIds, a \in AnyAddress, b \in AnyAddress \cup {Null}}
  \cup {GameLobby_joinGame(G, g, a, t).games : g \in GameIds, a \in AnyAddress}
  \cup {GameLobby_settleGame(G, g, t).games : g \in GameIds}
  \cup {GameLobby_makeChessMove(G, g, mv.from.row, mv.from.col, mv.to.row, mv.to.col, a, p).games :
      g \in GameIds, mv \in MoveRequests, a \in AnyAddress, p \in PromotionRequests}

\* C22: lobby ownership of Game records.  Every change to a stored Game is
\* made by a lobby operation: what getGame or a list query hands out is a
\* snapshot, and no component (HTTP handler, event poller) changes the stored
\* state, opponent or chessState of a game by writing to that value.
C22_LobbyOwnsGames ==
  [][games' # games => games' \in LobbyOperationResults(games, now)]_vars

\* GET /open: the route passes excludeUser to getOpenGames, which takes no
\* argument.
GetOpen(G, excludeUserAddress) == GameLobby_getOpenGames(G)

\* C23: listOpen(excludeAddr) returns exactly the Games whose state is
\* WAITING, whose opponent is null and whose owner differs from excludeAddr
\* when one is given: no game of the excluded user, no invitation and no
\* STARTED or SETTLED game is listed.
C23_ListOpen ==
  \A excludeAddr \in AnyAddress \cup {Null} :
    GetOpen(games, excludeAddr) =
      {g \in DOMAIN games :
         /\ games[g].state = "WAITING"
         /\ games[g].opponent = Null
         /\ excludeAddr # Null => toLowerCase(games[g].owner) # toLowerCase(excludeAddr)}

(***************************************************************************)
(* gameRoutes.ts: the authenticateUser middleware.  A header is a sequence *)
(* of characters; what the identity provider answers to verifyAuthToken    *)
(* and getUserById, and whether the token's payload decodes, are inputs.   *)
(***************************************************************************)
Chars(prefix, token) == prefix \o token

SomeToken == <<"t", "o", "k">>
BearerPrefix == <<"B", "e", "a", "r", "e", "r", " ">>

NoHeader == <<>>
AuthHeaders ==
  {NoHeader,
   Chars(BearerPrefix, SomeToken),
   Chars(<<"b", "e", "a", "r", "e", "r", " ">>, SomeToken),
   Chars(<<"B", "a", "s", "i", "c", " ">>, SomeToken),
   Chars(<<"B", "e", "a", "r", "e", "r">>, SomeToken),
   SomeToken}

startsWith(s, prefix) == Len(s) >= Len(prefix) /\ SubSeq(s, 1, Len(prefix)) = prefix

\* s.substring(start) with a zero-based start.
substring(s, start) == SubSeq(s, start + 1, Len(s))

Account(type, address) == [type |-> type, address |-> address]

\* An answer of the identity provider: a value or a thrown error.
Answer(kind, linkedAccounts) == [kind |-> kind, linkedAccounts |-> linkedAccounts]

\* privy.verifyAuthToken: claims with or without a userId, or an error whose
\* message has or has not the words 'User not found'.
VerifyAnswers ==
  {Answer(k, <<>>) : k \in {"claims", "claimsWithoutUserId", "throws", "throwsUserNotFound"}}

LinkedAccounts ==
  {<<>>,
   <<Account("email", "a@b")>>,
   <<Account("wallet", "0xAA")>>,
   <<Account("email", "a@b"), Account("wallet", "0xbb")>>,
   <<Account("wallet", "0xCC"), Account("wallet", "0xaa")>>}

\* privy.getUserById: a user, null, or an error.
UserAnswers ==
  {Answer("user", l) : l \in LinkedAccounts}
    \cup {Answer(k, <<>>) : k \in {"null", "throws", "throwsUserNotFound"}}

Unauthorized == [status |-> "401", address |-> Null]

\* authenticateUser were it to attach the wallet address as the provider
\* spells it.
authenticateUser_KeepsCase(authHeader, verified, found, payloadDecodes) ==
  IF authHeader = NoHeader \/ ~startsWith(authHeader, BearerPrefix) THEN Unauthorized
  ELSE LET token == substring(authHeader, 7)
           thrown == IF verified.kind \in {"throws", "throwsUserNotFound"} THEN verified.kind
                     ELSE IF verified.kind = "claims" /\ found.kind \in {"throws", "throwsUserNotFound"}
                          THEN found.kind ELSE "none"
       IN IF thrown = "none" /\ verified.kind = "claimsWithoutUserId" THEN Unauthorized
          ELSE IF thrown = "none" /\ found.kind = "null" THEN Unauthorized
          ELSE IF thrown = "throws" THEN Unauthorized
          ELSE IF thrown = "throwsUserNotFound" /\ ~payloadDecodes THEN Unauthorized
          ELSE LET user == IF thrown = "throwsUserNotFound" THEN Answer("user", <<>>) ELSE found
                   wallets == SelectSeq(user.linkedAccounts, LAMBDA account : account.type = "wallet")
               IN IF wallets = <<>> THEN Unauthorized
                  ELSE [status |-> "next", address |-> wallets[1].address]

\* authenticateUser: "401" with no caller, or "next" with the caller's
\* address.  verified and found are the provider's answers to the token and
\* to the user id; payloadDecodes says whether the token's payload parses.
authenticateUser(authHeader, verified, found, payloadDecodes) ==
  IF authHeader = NoHeader \/ ~startsWith(authHeader, BearerPrefix) THEN Unauthorized
  ELSE LET token == substring(authHeader, 7)
           thrown == IF verified.kind \in {"throws", "throwsUserNotFound"} THEN verified.kind
                     ELSE IF verified.kind = "claims" /\ found.kind \in {"throws", "throwsUserNotFound"}
                          THEN found.kind ELSE "none"
       IN IF thrown = "none" /\ verified.kind = "claimsWithoutUserId" THEN Unauthorized
          ELSE IF thrown = "none" /\ found.kind = "null" THEN Unauthorized
          ELSE IF thrown = "throws" THEN Unauthorized
          ELSE IF thrown = "throwsUserNotFound" /\ ~payloadDecodes THEN Unauthorized
          ELSE LET user == IF thrown = "throwsUserNotFound" THEN Answer("user", <<>>) ELSE found
                   wallets == SelectSeq(user.linkedAccounts, LAMBDA account : account.type = "wallet")
               IN IF wallets = <<>> THEN Unauthorized
                  ELSE [status |-> "next", address |-> toLowerCase(wallets[1].address)]

(***************************************************************************)
(* The authenticated routes behind authenticateUser.                       *)
(***************************************************************************)
\* res.status(401): the handler is not run.
Reject401 ==
  /\ resp' = "unauthorized"
  /\ UNCHANGED <<games, settleCalls, chainVars, pollerVars>>

AuthCreateGame(authHeader, verified, found, payloadDecodes, gameId, opponent) ==
  LET auth == authenticateUser(authHeader, verified, found, payloadDecodes) IN
  IF auth.status = "401" THEN Reject401 ELSE HttpCreateGame(gameId, auth.address, opponent)

AuthJoinGame(authHeader, verified, found, payloadDecodes, gameId) ==
  LET auth == authenticateUser(authHeader, verified, found, payloadDecodes) IN
  IF auth.status = "401" THEN Reject401 ELSE HttpJoinGame(gameId, auth.address)

AuthMakeMove(authHeader, verified, found, payloadDecodes, gameId, mv, promotionPiece) ==
  LET auth == authenticateUser(authHeader, verified, found, payloadDecodes) IN
  IF auth.status = "401" THEN Reject401 ELSE HttpMakeMove(gameId, mv, auth.address, promotionPiece)

NextAuth ==
  \E h \in AuthHeaders, v \in VerifyAnswers, f \in UserAnswers, d \in BOOLEAN :
    \/ \E p \in HttpNamedOpponents : AuthCreateGame(h, v, f, d, EngineGameId, p)
    \/ AuthJoinGame(h, v, f, d, EngineGameId)
    \/ \E mv \in MoveRequests, p \in PromotionRequests :
         AuthMakeMove(h, v, f, d, EngineGameId, mv, p)

SpecAuth == Init /\ [][NextAuth]_vars

(***************************************************************************)
(* Properties of authenticateUser, checked under SpecAuth.                 *)
(***************************************************************************)
\* The user has a wallet-type linked account.
HasWallet(found) ==
  \E i \in DOMAIN found.linkedAccounts : found.linkedAccounts[i].type = "wallet"

\* The request passes the gate exactly when its header is 'Bearer <token>',
\* the provider verified the token and resolved a user, and the user has a
\* wallet account; every other request gets 401; the address attached is the
\* lower-case spelling of the wallet's.
C24_Gate ==
  \A h \in AuthHeaders, v \in VerifyAnswers, f \in UserAnswers, d \in BOOLEAN :
    LET auth == authenticateUser(h, v, f, d)
        passes == /\ Len(h) > Len(BearerPrefix)
                  /\ \A i \in DOMAIN BearerPrefix : h[i] = BearerPrefix[i]
                  /\ v.kind = "claims"
                  /\ f.kind = "user"
                  /\ HasWallet(f)
    IN /\ auth.status \in {"401", "next"}
       /\ (auth.status = "next") <=> passes
       /\ auth.status = "401" => auth.address = Null
       /\ auth.status = "next" =>
            /\ auth.address \in LowerAddresses
            /\ \E i \in DOMAIN f.linkedAccounts :
                 /\ f.linkedAccounts[i].type = "wallet"
                 /\ toLowerCase(f.linkedAccounts[i].address) = auth.address

\* A request answered 401 leaves the lobby as it was, and the callers that
\* the handlers store are lower-case addresses.
C24_Handler ==
  /\ resp' = "unauthorized" => games' = games
  /\ \A g \in DOMAIN games' :
       /\ games'[g].owner \in LowerAddresses
       /\ games'[g].opponent \in LowerAddresses \cup {Null}

\* C24: AuthGate.  A request reaches an authenticated handler with a caller
\* address attached only if its Authorization header is 'Bearer <token>', the
\* token was verified by the identity provider and the resolved user has a
\* wallet-type linked account; in every other case the response is 401 and
\* the handler is not invoked.  The attached address is always lower-case.
C24_AuthGate == []C24_Gate /\ [][C24_Handler]_vars

\* A user whose wallet is spelled 0xCC has created a game as 0xcc, a user
\* whose wallet is spelled 0xAA has joined it as 0xaa, and a request has been
\* answered 401.
C24_Witness ==
  /\ \E g \in DOMAIN games : games[g].owner = "0xcc" /\ games[g].opponent = "0xaa"
  /\ resp = "unauthorized"

\* C25: settlement is fire-and-forget.  The move that gives checkmate starts
\* the settlement and does not wait for it: its response and the game's
\* chessState are the engine's result whether the transaction later succeeds,
\* fails or never completes, and one settlement, never a retry, has been
\* handed to BlockchainService when the handler returns.
C25_FireAndForget ==
  [][\A g \in DOMAIN games :
       AcceptedMove(g, {"checkmate"}) =>
         /\ resp' = "ok"
         /\ games'[g].chessState.gameStatus = "checkmate"
         /\ Len(settleCalls') = Len(settleCalls) + 1]_vars

(***************************************************************************)
(* ChessEscrow.sol in full: ownership, wagers, settlement and withdrawals. *)
(* A contract state is the record                                          *)
(*   [owner, settler, games, pendingWithdrawals, balance, received]        *)
(* where games maps the ids in use to Game structs, balance is             *)
(* address(this).balance and received[a] is the ether the contract has     *)
(* sent to account a.  A call returns the new state, the events it emits   *)
(* and whether it reverted; a reverted call returns the state it was given.*)
(* Amounts stay far below 2^256, so checked arithmetic never reverts.      *)
(***************************************************************************)
MaxEscrowTxs == 4

MaxSurplus == 1

EscrowDeployer == "0xDD"
EscrowAccounts == {"0xAA", "0xBB", EscrowDeployer}
EscrowGameIds == {"", "g1"}
Wagers == {0, 1, 2}

EscrowEvent(type, gameId, who, amount) ==
  [type |-> type, gameId |-> gameId, who |-> who, amount |-> amount]

EscrowReverted(E) == [state |-> E, events |-> <<>>, reverted |-> TRUE]

EscrowDone(E, events) == [state |-> E, events |-> events, reverted |-> FALSE]

\* constructor()
Escrow_constructor(sender) ==
  [owner |-> sender, settler |-> sender, games |-> EmptyMap,
   pendingWithdrawals |-> [a \in EscrowAccounts |-> 0],
   balance |-> 0,
   received |-> [a \in EscrowAccounts |-> 0]]

\* modifier gameExists
gameExists(E, gameId) == gameId \in DOMAIN E.games

\* createGame(_gameId, _opponent) payable
Escrow_createGame(E, sender, value, gameId, opponent, timestamp) ==
  IF gameId = "" THEN EscrowReverted(E)
  ELSE IF gameExists(E, gameId) THEN EscrowReverted(E)
  ELSE IF ~(value > 0) THEN EscrowReverted(E)
  ELSE EscrowDone(
         [E EXCEPT !.games = MapSet(E.games, gameId,
                     [gameId |-> gameId, creator |-> sender, opponent |-> opponent,
                      winner |-> Null, wagerAmount |-> value, creatorPaid |-> TRUE,
                      opponentPaid |-> FALSE, settled |-> FALSE, createdAt |-> timestamp]),
                   !.balance = @ + value],
         <<EscrowEvent("GameCreated", gameId, sender, value)>>)

\* joinGame were it to take any payment for the wager.
Escrow_joinGame_AnyValue(E, sender, value, gameId) ==
  IF ~gameExists(E, gameId) THEN EscrowReverted(E)
  ELSE LET game == E.games[gameId] IN
    IF game.settled THEN EscrowReverted(E)
    ELSE IF game.opponentPaid THEN EscrowReverted(E)
    ELSE IF sender = game.creator THEN EscrowReverted(E)
    ELSE IF game.opponent # Null /\ sender # game.opponent THEN EscrowReverted(E)
    ELSE EscrowDone(
           [E EXCEPT !.games[gameId].opponent = sender,
                     !.games[gameId].opponentPaid = TRUE,
                     !.balance = @ + value],
           <<EscrowEvent("GameJoined", gameId, sender, value)>>)

\* joinGame(_gameId) payable gameExists gameNotSettled
Escrow_joinGame(E, sender, value, gameId) ==
  IF ~gameExists(E, gameId) THEN EscrowReverted(E)
  ELSE LET game == E.games[gameId] IN
    IF game.settled THEN EscrowReverted(E)
    ELSE IF game.opponentPaid THEN EscrowReverted(E)
    ELSE IF value # game.wagerAmount THEN EscrowReverted(E)
    ELSE IF sender = game.creator THEN EscrowReverted(E)
    ELSE IF game.opponent # Null /\ sender # game.opponent THEN EscrowReverted(E)
    ELSE EscrowDone(
           [E EXCEPT !.games[gameId].opponent = sender,
                     !.games[gameId].opponentPaid = TRUE,
                     !.balance = @ + value],
           <<EscrowEvent("GameJoined", gameId, sender, value)>>)

\* The body of settleGame once its requirements hold: the game is marked,
\* the winnings are sent, or owed when the winner's account refuses them.
SettleAndPay(E, gameId, winner, transferSucceeds) ==
  LET totalWinnings == E.games[gameId].wagerAmount * 2
      marked == [E EXCEPT !.games[gameId].settled = TRUE, !.games[gameId].winner = winner]
  IN EscrowDone(
       IF transferSucceeds
       THEN [marked EXCEPT !.balance = @ - totalWinnings,
                           !.received[winner] = @ + totalWinnings]
       ELSE [marked EXCEPT !.pendingWithdrawals[winner] = @ + totalWinnings],
       <<EscrowEvent("GameSettled", gameId, winner, totalWinnings)>>)

\* settleGame were it to lack the gameNotSettled modifier.
Escrow_settleGame_Repeatable(E, sender, gameId, winner, transferSucceeds) ==
  IF sender # E.settler THEN EscrowReverted(E)
  ELSE IF ~gameExists(E, gameId) THEN EscrowReverted(E)
  ELSE LET game == E.games[gameId] IN
    IF ~(game.creatorPaid /\ game.opponentPaid) THEN EscrowReverted(E)
    ELSE IF ~(winner = game.creator \/ winner = game.opponent) THEN EscrowReverted(E)
    ELSE SettleAndPay(E, gameId, winner, transferSucceeds)

\* settleGame were it to lack the onlySettler modifier.
Escrow_settleGame_ByAnyone(E, sender, gameId, winner, transferSucceeds) ==
  IF ~gameExists(E, gameId) THEN EscrowReverted(E)
  ELSE LET game == E.games[gameId] IN
    IF game.settled THEN EscrowReverted(E)
    ELSE IF ~(game.creatorPaid /\ game.opponentPaid) THEN EscrowReverted(E)
    ELSE IF ~(winner = game.creator \/ winner = game.opponent) THEN EscrowReverted(E)
    ELSE SettleAndPay(E, gameId, winner, transferSucceeds)

\* settleGame were it to pay out one wager.
Escrow_settleGame_OneWager(E, sender, gameId, winner, transferSucceeds) ==
  IF sender # E.settler THEN EscrowReverted(E)
  ELSE IF ~gameExists(E, gameId) THEN EscrowReverted(E)
  ELSE LET game == E.games[gameId] IN
    IF game.settled THEN EscrowReverted(E)
    ELSE IF ~(game.creatorPaid /\ game.opponentPaid) THEN EscrowReverted(E)
    ELSE IF ~(winner = game.creator \/ winner = game.opponent) THEN EscrowReverted(E)
    ELSE LET paid == SettleAndPay(E, gameId, winner, transferSucceeds) IN
         [paid EXCEPT !.state.received[winner] =
                        IF transferSucceeds THEN @ - game.wagerAmount ELSE @,
                      !.state.balance =
                        IF transferSucceeds THEN @ + game.wagerAmount ELSE @,
                      !.state.pendingWithdrawals[winner] =
                        IF transferSucceeds THEN @ ELSE @ - game.wagerAmount]

\* settleGame(_gameId, _winner) onlySettler gameExists gameNotSettled.
\* transferSucceeds is the outcome of the call that sends the winnings.
Escrow_settleGame(E, sender, gameId, winner, transferSucceeds) ==
  IF sender # E.settler THEN EscrowReverted(E)
  ELSE IF ~gameExists(E, gameId) THEN EscrowReverted(E)
  ELSE LET game == E.games[gameId] IN
    IF game.settled THEN EscrowReverted(E)
    ELSE IF ~(game.creatorPaid /\ game.opponentPaid) THEN EscrowReverted(E)
    ELSE IF ~(winner = game.creator \/ winner = game.opponent) THEN EscrowReverted(E)
    ELSE SettleAndPay(E, gameId, winner, transferSucceeds)

\* updateSettler(_newSettler) onlyOwner
Escrow_updateSettler(E, sender, newSettler) ==
  IF sender # E.owner THEN EscrowReverted(E)
  ELSE IF newSettler = Null THEN EscrowReverted(E)
  ELSE EscrowDone([E EXCEPT !.settler = newSettler],
                  <<EscrowEvent("SettlerUpdated", "", newSettler, 0)>>)

\* withdrawPending()
Escrow_withdrawPending(E, sender, transferSucceeds) ==
  LET amount == E.pendingWithdrawals[sender] IN
  IF ~(amount > 0) THEN EscrowReverted(E)
  ELSE IF ~transferSucceeds THEN EscrowReverted(E)
  ELSE EscrowDone([E EXCEPT !.pendingWithdrawals[sender] = 0,
                            !.balance = @ - amount,
                            !.received[sender] = @ + amount],
                  <<>>)

\* receive() external payable
Escrow_receive(E, sender, value) ==
  EscrowDone([E EXCEPT !.balance = @ + value], <<>>)

RECURSIVE SumUp(_, _)
\* The sum of f over the set S.
SumUp(f, S) ==
  IF S = {} THEN 0
  ELSE LET x == CHOOSE y \in S : TRUE IN f[x] + SumUp(f, S \ {x})

\* What the players of a game have paid in.
Deposits(game) ==
  (IF game.creatorPaid THEN game.wagerAmount ELSE 0)
  + (IF game.opponentPaid THEN game.wagerAmount ELSE 0)

\* What the contract owes: the deposits of the games not yet settled and
\* the winnings that could not be sent.
Owed(E) ==
  SumUp([g \in DOMAIN E.games |-> IF E.games[g].settled THEN 0 ELSE Deposits(E.games[g])],
        DOMAIN E.games)
  + SumUp(E.pendingWithdrawals, DOMAIN E.pendingWithdrawals)

(***************************************************************************)
(* The contract on its chain: accounts send it transactions, each mined    *)
(* in a block of its own.  Here chainGames holds the whole contract state, *)
(* blocks the events of the transactions that went through, and resp the   *)
(* outcome of the last transaction.  emergencyWithdraw is never called.    *)
(* Plain transfers to the contract stop once it holds MaxSurplus more than *)
(* it owes.                                                                *)
(***************************************************************************)
InitEscrow ==
  /\ games = EmptyMap
  /\ resp = "none"
  /\ settleCalls = <<>>
  /\ chainGames = Escrow_constructor(EscrowDeployer)
  /\ blocks = <<>>
  /\ isPolling = FALSE
  /\ lastProcessedBlock = 0
  /\ ticks = EmptyBag

\* One transaction: the state and the events are kept unless it reverted.
EscrowTx(result) ==
  /\ Len(blocks) < MaxEscrowTxs
  /\ chainGames' = result.state
  /\ blocks' = IF result.reverted THEN blocks ELSE Append(blocks, result.events)
  /\ resp' = IF result.reverted THEN "reverted" ELSE "ok"
  /\ UNCHANGED <<games, settleCalls, pollerVars>>

EscrowCreateGame(sender, value, gameId, opponent) ==
  EscrowTx(Escrow_createGame(chainGames, sender, value, gameId, opponent, Len(blocks)))

EscrowJoinGame(sender, value, gameId) ==
  EscrowTx(Escrow_joinGame(chainGames, sender, value, gameId))

EscrowSettleGame(sender, gameId, winner, transferSucceeds) ==
  EscrowTx(Escrow_settleGame(chainGames, sender, gameId, winner, transferSucceeds))

EscrowUpdateSettler(sender, newSettler) ==
  EscrowTx(Escrow_updateSettler(chainGames, sender, newSettler))

EscrowWithdrawPending(sender, transferSucceeds) ==
  EscrowTx(Escrow_withdrawPending(chainGames, sender, transferSucceeds))

EscrowReceive(sender, value) ==
  /\ chainGames.balance - Owed(chainGames) < MaxSurplus
  /\ EscrowTx(Escrow_receive(chainGames, sender, value))

NextEscrow ==
  \/ \E a \in EscrowAccounts, v \in Wagers, g \in EscrowGameIds, o \in EscrowAccounts \cup {Null} :
       EscrowCreateGame(a, v, g, o)
  \/ \E a \in EscrowAccounts, v \in Wagers, g \in EscrowGameIds : EscrowJoinGame(a, v, g)
  \/ \E a \in EscrowAccounts, g \in EscrowGameIds, w \in EscrowAccounts \cup {Null}, ok \in BOOLEAN :
       EscrowSettleGame(a, g, w, ok)
  \/ \E a \in EscrowAccounts, s \in EscrowAccounts \cup {Null} : EscrowUpdateSettler(a, s)
  \/ \E a \in EscrowAccounts, ok \in BOOLEAN : EscrowWithdrawPending(a, ok)
  \/ \E a \in EscrowAccounts : EscrowReceive(a, 1)

SpecEscrow == InitEscrow /\ [][NextEscrow]_vars


\* The events of one type emitted for a game id, over all transactions so far.
EmittedFor(type, gameId) ==
  {i \in DOMAIN blocks :
     \E j \in DOMAIN blocks[i] : blocks[i][j].type = type /\ blocks[i][j].gameId = gameId}

\* The ids of the games the contract holds as settled.
SettledIds == {g \in DOMAIN chainGames.games : chainGames.games[g].settled}

C26_Once ==
  \A g \in EscrowGameIds :
    /\ Cardinality(EmittedFor("GameSettled", g)) <= 1
    /\ (g \in SettledIds <=> EmittedFor("GameSettled", g) # {})
    /\ g \in SettledIds => chainGames.games[g].winner \in
                             {chainGames.games[g].creator, chainGames.games[g].opponent}

C26_Later ==
  /\ \A a \in EscrowAccounts, g \in EscrowGameIds, w \in EscrowAccounts \cup {Null}, ok \in BOOLEAN :
       EscrowSettleGame(a, g, w, ok) =>
         IF g \in SettledIds
         THEN resp' = "reverted" /\ chainGames' = chainGames /\ blocks' = blocks
         ELSE resp' = "ok" => /\ chainGames'.games[g].settled
                              /\ chainGames'.games[g].winner = w
                              /\ w # Null
  /\ \A a \in EscrowAccounts, v \in Wagers, g \in SettledIds :
       EscrowJoinGame(a, v, g) =>
         resp' = "reverted" /\ chainGames' = chainGames /\ blocks' = blocks

\* C26: for every game id settleGame succeeds at most once; a settled game
\* carries its winner, and every later settleGame or joinGame on that id
\* reverts and leaves the contract's state and balances as they were.
C26_SingleSettlement == []C26_Once /\ [][C26_Later]_vars

\* A settled game on which a further transaction has just reverted.
C26_Witness ==
  /\ SettledIds # {}
  /\ resp = "reverted"
  /\ \E g \in SettledIds : chainGames.games[g].winner = chainGames.games[g].opponent


\* What settleGame requires of its caller, its game and its winner.
SettleRequirements(E, sender, gameId, winner) ==
  /\ sender = E.settler
  /\ gameId \in DOMAIN E.games
  /\ ~E.games[gameId].settled
  /\ E.games[gameId].creatorPaid
  /\ E.games[gameId].opponentPaid
  /\ winner \in {E.games[gameId].creator, E.games[gameId].opponent}

C27_Guards ==
  \A a \in EscrowAccounts, g \in EscrowGameIds, w \in EscrowAccounts \cup {Null}, ok \in BOOLEAN :
    EscrowSettleGame(a, g, w, ok) =>
      IF SettleRequirements(chainGames, a, g, w)
      THEN resp' = "ok"
      ELSE resp' = "reverted" /\ chainGames' = chainGames /\ blocks' = blocks

C27_Settler ==
  /\ chainGames'.owner = chainGames.owner
  /\ chainGames'.settler # chainGames.settler =>
       /\ \E s \in EscrowAccounts : EscrowUpdateSettler(chainGames.owner, s)
       /\ chainGames'.settler # Null
  /\ \A a \in EscrowAccounts \ {chainGames.owner}, s \in EscrowAccounts \cup {Null} :
       EscrowUpdateSettler(a, s) => resp' = "reverted" /\ chainGames' = chainGames

\* C27: settleGame goes through only when its caller is the current settler,
\* the game exists, is not settled, both players have paid and the winner is
\* the creator or the opponent; otherwise it reverts and changes nothing.
\* The settler changes only by a call of the owner.
C27_SettlementGuards == [][C27_Guards /\ C27_Settler]_vars

\* A game settled by a settler the owner appointed.
C27_Witness ==
  /\ chainGames.settler # chainGames.owner
  /\ resp = "ok"
  /\ Len(blocks) > 1
  /\ blocks[Len(blocks)] # <<>>
  /\ blocks[Len(blocks)][1].type = "GameSettled"
  /\ \E i \in 1..(Len(blocks) - 1) :
       blocks[i] # <<>> /\ blocks[i][1].type = "SettlerUpdated"


\* What joinGame requires of its caller, its payment and its game.
JoinRequirements(E, sender, value, gameId) ==
  /\ gameId \in DOMAIN E.games
  /\ ~E.games[gameId].settled
  /\ ~E.games[gameId].opponentPaid
  /\ value = E.games[gameId].wagerAmount
  /\ sender # E.games[gameId].creator
  /\ E.games[gameId].opponent # Null => sender = E.games[gameId].opponent

C28_Join ==
  \A a \in EscrowAccounts, v \in Wagers, g \in EscrowGameIds :
    EscrowJoinGame(a, v, g) =>
      IF JoinRequirements(chainGames, a, v, g)
      THEN /\ resp' = "ok"
           /\ chainGames'.games[g].opponent = a
           /\ chainGames'.games[g].opponentPaid
           /\ blocks' = Append(blocks, <<EscrowEvent("GameJoined", g, a, v)>>)
      ELSE resp' = "reverted" /\ chainGames' = chainGames /\ blocks' = blocks

C28_OneJoin ==
  \A g \in EscrowGameIds :
    /\ Cardinality(EmittedFor("GameJoined", g)) <= 1
    /\ \A i \in DOMAIN blocks :
         Cardinality({j \in DOMAIN blocks[i] : blocks[i][j].type = "GameJoined"}) <= 1

\* C28: joinGame goes through only for an existing, unsettled game without a
\* paid opponent, with a payment equal to the wager, from a caller who is not
\* the creator and who is the named opponent if one is named; it then records
\* the caller as paid opponent and emits one GameJoined, so that no game id
\* ever has two; otherwise it reverts and changes nothing.
C28_JoinGuards == []C28_OneJoin /\ [][C28_Join]_vars

\* A joined game on which a further transaction has just reverted.
C28_Witness ==
  /\ resp = "reverted"
  /\ \E g \in DOMAIN chainGames.games :
       /\ chainGames.games[g].opponentPaid
       /\ ~chainGames.games[g].settled
       /\ EmittedFor("GameJoined", g) # {}


C29_Deposit ==
  /\ \A a \in EscrowAccounts, v \in Wagers, g \in EscrowGameIds, o \in EscrowAccounts \cup {Null} :
       EscrowCreateGame(a, v, g, o) /\ resp' = "ok" =>
         /\ chainGames'.balance = chainGames.balance + v
         /\ Deposits(chainGames'.games[g]) = v
         /\ chainGames'.games[g].wagerAmount = v
  /\ \A a \in EscrowAccounts, v \in Wagers, g \in EscrowGameIds :
       EscrowJoinGame(a, v, g) /\ resp' = "ok" =>
         /\ chainGames'.balance = chainGames.balance + chainGames.games[g].wagerAmount
         /\ Deposits(chainGames'.games[g]) = 2 * chainGames.games[g].wagerAmount

C29_Winnings ==
  \A a \in EscrowAccounts, g \in EscrowGameIds, w \in EscrowAccounts, ok \in BOOLEAN :
    EscrowSettleGame(a, g, w, ok) /\ resp' = "ok" =>
      LET winnings == 2 * chainGames.games[g].wagerAmount IN
      /\ chainGames.balance >= winnings
      /\ IF ok
         THEN /\ chainGames'.received = [chainGames.received EXCEPT ![w] = @ + winnings]
              /\ chainGames'.pendingWithdrawals = chainGames.pendingWithdrawals
              /\ chainGames'.balance = chainGames.balance - winnings
         ELSE /\ chainGames'.received = chainGames.received
              /\ chainGames'.pendingWithdrawals =
                   [chainGames.pendingWithdrawals EXCEPT ![w] = @ + winnings]
              /\ chainGames'.balance = chainGames.balance

C29_Covered ==
  /\ chainGames.balance >= Owed(chainGames)
  /\ \A a \in EscrowAccounts : chainGames.balance >= chainGames.pendingWithdrawals[a]
  /\ \A g \in DOMAIN chainGames.games :
       ~chainGames.games[g].settled => chainGames.balance >= Deposits(chainGames.games[g])

PollerBlockTxs ==
  BlockTxs \cup {<<Tx("createGame", g, c, o), Tx("joinGame", g, j, Null)>> :
                   g \in {EngineGameId}, c \in ChainCreators,
                   o \in ChainNamedOpponents \cup {Null}, j \in ChainJoiners}

NextPoller ==
  \/ \E txs \in PollerBlockTxs : MineBlock(txs)
  \/ HttpCreateGame(EngineGameId, "0xaa", Null)
  \/ HttpJoinGame(EngineGameId, "0xbb")
  \/ startPolling
  \/ TimerTick
  \/ \E tick \in BagToSet(ticks) : PollGotBlock(tick)
  \/ \E tick \in BagToSet(ticks) : PollGotCreated(tick)
  \/ \E tick \in BagToSet(ticks), outcome \in {"ok", "getGameFailed"} : PollGotGame(tick, outcome)
  \/ \E tick \in BagToSet(ticks) : PollGotJoined(tick, {})
  \/ \E tick \in BagToSet(ticks) : PollRpcError(tick)

SpecPoller == Init /\ [][NextPoller]_vars

\* The ids of the GameCreated events a tick has read.
CreatedIn(tick) == {tick.gameCreatedEvents[i].gameId : i \in DOMAIN tick.gameCreatedEvents}

C30_CreatedFirst ==
  \A tick \in BagToSet(ticks) :
    /\ tick.pc = "getGame" =>
         /\ tick.gameJoinedEvents = <<>>
         /\ \A i \in 1..(tick.idx - 1) : tick.gameCreatedEvents[i].gameId \in DOMAIN games
    /\ tick.pc = "queryJoined" => CreatedIn(tick) \subseteq DOMAIN games

C30_JoinApplied ==
  \A tick \in BagToSet(ticks) :
    JoinedStep(tick) =>
      \A i \in DOMAIN tick.gameJoinedEvents :
        LET event == tick.gameJoinedEvents[i] IN
        event.gameId \in CreatedIn(tick) =>
          /\ event.gameId \in DOMAIN games'
          /\ games'[event.gameId].state = "STARTED"
          /\ games'[event.gameId].opponent = event.sender

C31_CastlingGeneration ==
  Playing(EngineGameId) =>
    LET S == EngineState
        color == S.currentPlayer
        king == findKing(S, color)
    IN \A to \in CastlingMoves(S, color) :
         LET kingSide == to.col > king.col
             rookCol == IF kingSide THEN 7 ELSE 0
             crossed == (king.col + to.col) \div 2
             between == {c \in Idx : IF kingSide THEN king.col < c /\ c < 7
                                                ELSE 0 < c /\ c < king.col}
             result == makeMove(S, king.row, king.col, to.row, to.col, "none")
         IN /\ ~KingAttacked(S, color)
            /\ IF kingSide THEN S.castlingRights[color].kingSide
                           ELSE S.castlingRights[color].queenSide
            /\ \A c \in between : S.board[king.row][c] = NoPiece
            /\ S.board[HomeRow(color)][rookCol] = Piece("rook", color)
            /\ result.success
            /\ to.row = king.row
            /\ result.newGameState.board[to.row][to.col] = Piece("king", color)
            /\ result.newGameState.board[king.row][king.col] = NoPiece
            /\ result.newGameState.board[king.row][crossed] = Piece("rook", color)
            /\ result.newGameState.board[king.row][rookCol] = NoPiece
            /\ ~result.newGameState.castlingRights[color].kingSide
            /\ ~result.newGameState.castlingRights[color].queenSide


\* The row on which the colour's pawns start.
StartRow(color) == IF color = "white" THEN 6 ELSE 1

C32_Generation ==
  Playing(EngineGameId) =>
    LET S == EngineState IN
    \A from \in Squares :
      S.board[from.row][from.col].type = "pawn" =>
        LET color == S.board[from.row][from.col].color IN
        \A to \in getValidMoves(S, from.row, from.col) :
          /\ Abs(to.row - from.row) <= 2
          /\ Abs(to.row - from.row) = 2 =>
               /\ to.col = from.col
               /\ from.row = StartRow(color)
               /\ to.row = from.row + 2 * Forward(color)
               /\ S.board[from.row + Forward(color)][from.col] = NoPiece
               /\ S.board[to.row][to.col] = NoPiece

C32_Target ==
  Playing(EngineGameId) =>
    LET S == EngineState
        last == S.lastMove
    IN S.enPassantTarget =
         IF S.moveHistory # <<>> /\ IsDoubleStep(last)
         THEN Sq(last.from.row + Forward(last.piece.color), last.from.col)
         ELSE NoSquare

\* C32: pawn double advance.  A two-square pawn advance is among the valid
\* moves only from the pawn's starting row and only when the skipped and the
\* destination square are empty; after an accepted move enPassantTarget is
\* the skipped square if the move was a two-square pawn advance and is unset
\* after every other move.
C32_PawnDoubleAdvance == C32_Generation /\ C32_Target

\* A pawn has just advanced two squares, and an earlier two-square advance
\* was followed by another move.
C32_Witness ==
  /\ Playing(EngineGameId)
  /\ Len(EngineState.moveHistory) >= 3
  /\ IsDoubleStep(EngineState.lastMove)
  /\ EngineState.enPassantTarget # NoSquare
  /\ \E i \in 1..(Len(EngineState.moveHistory) - 1) :
       /\ IsDoubleStep(EngineState.moveHistory[i])
       /\ ~IsDoubleStep(EngineState.moveHistory[i + 1])


(***************************************************************************)
(* The engine on objects.  The operators above compute with values; here   *)
(* a heap maps object identities to chess states, so that a write through  *)
(* one reference shows in every other reference to the same object.        *)
(* CallerState is the object the caller passes in, Scratch the object      *)
(* deepCopyGameState makes.                                                *)
(***************************************************************************)
CallerState == "gameState"
Scratch == "scratch"

\* deepCopyGameState were it to return its argument.
deepCopyGameState_Object_SameObject(H, ref) == [heap |-> H, ref |-> ref]

\* deepCopyGameState: a new object holding the copied value.
deepCopyGameState_Object(H, ref) ==
  [heap |-> [r \in DOMAIN H \cup {Scratch} |->
               IF r = Scratch THEN deepCopyGameState(H[ref]) ELSE H[r]],
   ref |-> Scratch]

\* The loop of getValidMoves over the raw moves: each move is written into
\* a copy of the state, on which the king's safety is then tested.
RECURSIVE getValidMoves_Loop(_, _, _, _, _)
getValidMoves_Loop(H, ref, row, col, rawMoves) ==
  IF rawMoves = {} THEN [heap |-> H, validMoves |-> {}]
  ELSE LET move == CHOOSE m \in rawMoves : TRUE
           temp == deepCopyGameState_Object(H, ref)
           piece == temp.heap[temp.ref].board[row][col]
           written == [temp.heap EXCEPT ![temp.ref].board[move.row][move.col] = piece,
                                        ![temp.ref].board[row][col] = NoPiece]
           kingInCheck == isKingInCheckAfterMove(written[temp.ref], piece.color)
           rest == getValidMoves_Loop(written, ref, row, col, rawMoves \ {move})
       IN [heap |-> rest.heap,
           validMoves |-> rest.validMoves \cup (IF kingInCheck THEN {} ELSE {move})]

\* getValidMoves on the object ref: the heap it leaves and the moves it returns.
getValidMoves_Object(H, ref, row, col) ==
  LET piece == H[ref].board[row][col] IN
  IF piece.type = "none" \/ piece.color # H[ref].currentPlayer
  THEN [heap |-> H, validMoves |-> {}]
  ELSE getValidMoves_Loop(H, ref, row, col, getRawMoves(H[ref], row, col))

\* makeMove on the object ref: the heap it leaves and the result it returns.
\* Every write after the copy goes to newGameState.
makeMove_Object(H, ref, fromRow, fromCol, toRow, toCol, promotionPiece) ==
  LET valid == getValidMoves_Object(H, ref, fromRow, fromCol)
      targetPiece == valid.heap[ref].board[toRow][toCol]
      newGameState == deepCopyGameState_Object(valid.heap, ref)
      result == makeMove(newGameState.heap[newGameState.ref], fromRow, fromCol,
                         toRow, toCol, promotionPiece)
  IN IF Sq(toRow, toCol) \notin valid.validMoves
     THEN [heap |-> valid.heap, result |-> EngineError("Invalid move")]
     ELSE IF targetPiece.type = "king"
     THEN [heap |-> valid.heap, result |-> EngineError("Cannot capture king")]
     ELSE IF ~result.success THEN [heap |-> newGameState.heap, result |-> result]
     ELSE [heap |-> [newGameState.heap EXCEPT ![newGameState.ref] = result.newGameState],
           result |-> result]

\* The destinations tried from a square: the valid ones, the square itself,
\* a square in the middle of the board and the squares of the two kings.
Destinations(gameState, from) ==
  getValidMoves(gameState, from.row, from.col)
    \cup {from, Sq(4, 4), findKing(gameState, "white"), findKing(gameState, "black")}

C33_Engine ==
  Playing(EngineGameId) =>
    LET S == EngineState
        H == [r \in {CallerState} |-> S]
    IN \A from \in Squares :
         LET valid == getValidMoves_Object(H, CallerState, from.row, from.col) IN
         /\ valid.heap[CallerState] = S
         /\ valid.validMoves = getValidMoves(S, from.row, from.col)
         /\ \A to \in Destinations(S, from) :
              LET made == makeMove_Object(H, CallerState, from.row, from.col,
                                          to.row, to.col, "none")
              IN /\ made.heap[CallerState] = S
                 /\ made.result = makeMove(S, from.row, from.col, to.row, to.col, "none")

C33_Rejected ==
  \A a \in EnginePlayers, p \in EnginePromotionRequests :
    (ScriptedMove(a, p) /\ resp' = "error") => games' = games

\* C33: the engine's operations do not change the state they are given.
\* validMoves and makeMove leave the caller's chess state as it was, whether
\* the move is accepted or rejected, so a move the lobby rejects leaves the
\* stored chessState as it was.
C33_InputUnchanged == []C33_Engine /\ [][C33_Rejected]_vars

\* A move has been accepted and a later request was rejected.
C33_Witness ==
  /\ Playing(EngineGameId)
  /\ Len(EngineState.moveHistory) >= 2
  /\ resp = "error"


\* C34: the poller's lastProcessedBlock never decreases: every assignment
\* to it, in startPolling and at the end of any tick, stores a value greater
\* than or equal to the one it replaces.
C34_MonotoneLastProcessedBlock == [][lastProcessedBlock' >= lastProcessedBlock]_vars


\* The squares on which a king of the colour stands.
Kings(gameState, color) ==
  {sq \in Squares : gameState.board[sq.row][sq.col] = Piece("king", color)}

\* C35: king presence.  In every chess state reached by accepted moves the
\* board holds exactly one white king and exactly one black king; no
\* accepted move has captured a king, and makeMove rejects every move whose
\* destination square holds a king.
C35_KingPresence ==
  Playing(EngineGameId) =>
    LET S == EngineState IN
    /\ \A color \in {"white", "black"} : Cardinality(Kings(S, color)) = 1
    /\ \A i \in DOMAIN S.moveHistory : S.moveHistory[i].capturedPiece.type # "king"
    /\ \A color \in {"white", "black"} : \A to \in Kings(S, color) : \A from \in Squares :
         ~makeMove(S, from.row, from.col, to.row, to.col, "none").success

\* The side to move has a valid move onto the square of the enemy king.
C35_Witness ==
  /\ Playing(EngineGameId)
  /\ \E from \in Squares :
       \E to \in getValidMoves(EngineState, from.row, from.col) :
         EngineState.board[to.row][to.col].type = "king"


(***************************************************************************)
(* The scripted games with the settle route, and with move requests that   *)
(* arrive when the game is over or not being played.                       *)
(***************************************************************************)
\* The game's chess status is checkmate or stalemate.
Over(game) == game.chessState # NoChess /\ game.chessState.gameStatus \in TerminalStatuses

\* The game takes no more moves: it is over or it is not STARTED.
Late(game) == game.state # "STARTED" \/ Over(game)

\* The moves requested of a game: the next move of a scripted game while it
\* is played, the moves of Fool's Mate once it takes no more moves.
TerminalRequests(game) ==
  IF Late(game) THEN MoveRequests ELSE NextRequests(game.chessState)

\* POST /:gameId/chess/move, sent by either player.
TerminalMove(caller, promotionPiece) ==
  /\ EngineGameId \in DOMAIN games
  /\ \E mv \in TerminalRequests(games[EngineGameId]) :
       HttpMakeMove(EngineGameId, mv, caller, promotionPiece)

NextTerminal ==
  \/ \E o \in HttpCreators : HttpCreateGame(EngineGameId, o, Null)
  \/ \E a \in HttpJoiners : HttpJoinGame(EngineGameId, a)
  \/ \E a \in EnginePlayers, p \in EnginePromotionRequests : TerminalMove(a, p)
  \/ HttpSettleGame(EngineGameId)

SpecTerminal == Init /\ [][NextTerminal]_vars

C36_Refused ==
  EngineGameId \in DOMAIN games =>
    LET game == games[EngineGameId] IN
    Late(game) =>
      \A a \in EnginePlayers \cup {"0xcc"} : \A from \in Squares : \A to \in Squares :
        LET r == GameLobby_makeChessMove(games, EngineGameId, from.row, from.col,
                                         to.row, to.col, a, "none")
        IN ~r.success /\ r.games = games

C36_Absorbing ==
  /\ \A a \in EnginePlayers, p \in EnginePromotionRequests :
       (EngineGameId \in DOMAIN games /\ Late(games[EngineGameId]) /\ TerminalMove(a, p))
         => resp' = "error" /\ games' = games
  /\ (EngineGameId \in DOMAIN games /\ Over(games[EngineGameId])) =>
       games'[EngineGameId].chessState = games[EngineGameId].chessState

\* C36: terminal positions are absorbing.  Once a game's chess status is
\* checkmate or stalemate every later move request on it, by either player
\* and for any squares, is rejected and leaves the chess state, the winner
\* and the game's state as they were; a move on a game that is not STARTED
\* is rejected without change as well.
C36_TerminalAbsorbing == []C36_Refused /\ [][C36_Absorbing]_vars

\* A move request has been rejected on a STARTED game that ended in stalemate.
C36_Witness ==
  /\ EngineGameId \in DOMAIN games
  /\ games[EngineGameId].state = "STARTED"
  /\ Over(games[EngineGameId])
  /\ games[EngineGameId].chessState.gameStatus = "stalemate"
  /\ resp = "error"


(***************************************************************************)
(* A game played over HTTP while the contract holds a game of the same id  *)
(* joined by a third account: the lobby routes, the moves of Fool's Mate   *)
(* and the poller with event processors that run to their end.             *)
(***************************************************************************)
\* The escrow game: created by 0xAA for anyone, joined by 0xCC.
ParticipantBlockTxs ==
  {<<Tx("createGame", EngineGameId, "0xAA", Null)>>,
   <<Tx("joinGame", EngineGameId, "0xCC", Null)>>}

NextParticipants ==
  \/ \E txs \in ParticipantBlockTxs : MineBlock(txs)
  \/ HttpCreateGame(EngineGameId, "0xaa", Null)
  \/ HttpJoinGame(EngineGameId, "0xbb")
  \/ \E mv \in MoveRequests, a \in LowerAddresses : HttpMakeMove(EngineGameId, mv, a, "none")
  \/ startPolling
  \/ \E tick \in BagToSet(ticks) : PollGotBlock(tick)
  \/ \E tick \in BagToSet(ticks) : PollGotCreated(tick)
  \/ \E tick \in BagToSet(ticks) : PollGotGame(tick, "ok")
  \/ \E tick \in BagToSet(ticks) : PollGotJoined(tick, {})
  \/ (InFlight = 0 /\ TimerTick)

SpecParticipants == Init /\ [][NextParticipants]_vars

\* C37: participants are fixed once play starts.  After a game has reached
\* STARTED its owner and its opponent stay the same addresses, whatever
\* join requests, GameJoined events and moves follow.
C37_ParticipantsFixed ==
  [][\A g \in DOMAIN games :
       games[g].state = "STARTED" =>
         /\ g \in DOMAIN games'
         /\ toLowerCase(games'[g].owner) = toLowerCase(games[g].owner)
         /\ toLowerCase(games'[g].opponent) = toLowerCase(games[g].opponent)]_vars


\* The squares of a chess state that hold a piece of the colour.
Material(gameState, color) ==
  {sq \in Squares : gameState.board[sq.row][sq.col].color = color}

\* C38, the count: the pieces on the board and the pieces recorded in
\* capturedPieces.white and capturedPieces.black are 32 together.
C38_Total ==
  Playing(EngineGameId) =>
    LET S == EngineState IN
    Cardinality(Material(S, "white")) + Cardinality(Material(S, "black"))
      + Len(S.capturedPieces.white) + Len(S.capturedPieces.black) = 32

\* C38, the move: an accepted move keeps the mover's material, removes at
\* most one enemy piece, and a removed piece is reported as
\* move.capturedPiece and appended to the mover's capturedPieces list.
C38_Removal ==
  (Playing(EngineGameId) /\ Playing(EngineGameId)'
     /\ Len(EngineState'.moveHistory) = Len(EngineState.moveHistory) + 1) =>
    LET S == EngineState
        T == EngineState'
        move == T.lastMove
        mover == move.piece.color
        enemy == Opposite(mover)
        removed == Cardinality(Material(S, enemy)) - Cardinality(Material(T, enemy))
    IN /\ Cardinality(Material(T, mover)) = Cardinality(Material(S, mover))
       /\ removed \in {0, 1}
       /\ T.capturedPieces[enemy] = S.capturedPieces[enemy]
       /\ IF removed = 1
          THEN /\ move.capturedPiece.color = enemy
               /\ T.capturedPieces[mover] = Append(S.capturedPieces[mover], move.capturedPiece)
          ELSE /\ move.capturedPiece = NoPiece
               /\ T.capturedPieces[mover] = S.capturedPieces[mover]

\* C38: material accounting.  In every chess state reached from the initial
\* position the pieces on the board plus the pieces in capturedPieces.white
\* and capturedPieces.black are 32; each accepted move removes at most one
\* enemy piece, and every removed piece, a pawn taken en passant included,
\* is appended to the mover's capturedPieces and reported as
\* move.capturedPiece.
C38_MaterialAccounting == []C38_Total /\ [][C38_Removal]_vars


\* C39: king step bound.  Every valid move of the king of the side to move
\* changes its row and its column by at most one, except a castling move,
\* which is offered only to a king on its home square (home row, column 4)
\* and takes it exactly two columns along the home row, the rook going to
\* the square the king crossed; no king move spans three columns and none
\* castles from another square.
C39_KingStepBound ==
  Playing(EngineGameId) =>
    LET S == EngineState
        color == S.currentPlayer
        king == findKing(S, color)
    IN \A to \in getValidMoves(S, king.row, king.col) :
         LET result == makeMove(S, king.row, king.col, to.row, to.col, "none")
             crossed == (king.col + to.col) \div 2
         IN \/ /\ Abs(to.row - king.row) <= 1
               /\ Abs(to.col - king.col) <= 1
            \/ /\ king = Sq(HomeRow(color), 4)
               /\ to.row = king.row
               /\ Abs(to.col - king.col) = 2
               /\ result.success =>
                    /\ result.newGameState.board[to.row][to.col] = Piece("king", color)
                    /\ result.newGameState.board[king.row][crossed] = Piece("rook", color)

====
